---------------------------- MODULE Spec2Model ----------------------------
(***************************************************************************)
(* A model of amplifier-app-session-analyzer: the label validation and     *)
(* response parsing of classifier.py, the bounded-concurrency batch run of *)
(* PromptClassifier.classify_batch, and the event sweep of                 *)
(* metrics.calculate_overlap_metrics.                                      *)
(*                                                                         *)
(* Each component has its own variables and its own specification; a       *)
(* specification leaves the variables of the other components idle.        *)
(*   SpecValidate : _validate_categories on bounded label lists            *)
(*   SpecGroup    : _parse_batch_response and the result matching of       *)
(*                  _classify_batch_group on bounded response texts        *)
(*   Spec         : classify_batch, one task per group, asyncio scheduling *)
(*   SpecLive     : Spec with the fairness of the event loop               *)
(*   SpecOverlap  : calculate_overlap_metrics on bounded period lists      *)
(*   SpecLog      : parse_session_events, collect_autonomy_periods and     *)
(*                  extract_prompts_from_session on bounded session logs   *)
(*   SpecScope    : parse_time_scope and TimeScope.contains on a calendar  *)
(*                  whose days have UnitsPerDay instants                   *)
(*   SpecContext  : add_context_to_prompts on bounded prompt lists         *)
(*   SpecBudget   : _truncate_with_budget on texts given by their lengths  *)
(***************************************************************************)
EXTENDS Integers, Sequences, FiniteSets, TLC

VARIABLES
    \* _validate_categories: arguments, position, returned tuple
    vc_categories, vc_custom, vc_pc, vc_out,
    \* _classify_batch_group: the group, the collaborator's text, the outcome
    gr_batch, gr_response, gr_pc, gr_out,
    \* classify_batch
    prompts,          \* prompts_with_context
    max_concurrency,  \* self.config.max_concurrency
    prepared,         \* self._prepared
    semaphore,        \* permits left in asyncio.Semaphore
    completed_count,  \* the nonlocal progress counter
    callback_log,     \* the calls progress_callback received
    finish_order,     \* batch indexes in the order their tasks returned
    task_pc,          \* where each process_batch task stands
    task_results,     \* what each finished task returned
    main_pc,          \* where classify_batch itself stands
    all_results,      \* the list classify_batch returns
    lock,             \* the task holding the asyncio.Lock (0: nobody)
    setup_count,      \* how often the setup of _get_prepared_bundle was begun
    send_count,       \* how often each group was handed to session.execute
    \* calculate_overlap_metrics: argument, position, returned metrics
    ov_periods, ov_pc, ov_out,
    ov_active,        \* the local active_sessions when the sweep ended
    \* parser.py and semantic.py reading the session logs
    store,                 \* the sessions discover_sessions finds, with their lines
    time_scope,            \* the TimeScope of the run
    include_sub_sessions,  \* the flag of collect_autonomy_periods
    lg_pc,                 \* which of the two reads has run
    ca_out,                \* what collect_autonomy_periods returned
    ex_session,            \* the session extract_prompts_from_session read
    ex_out,                \* what extract_prompts_from_session returned
    \* time_scope.py
    scope_str,        \* the scope expression
    timezone,         \* the zone of the run, as its offset from UTC
    now,              \* the instant datetime.now(tz) reads
    sc_pc,            \* which call has run
    sc_out,           \* what parse_time_scope returned
    probe_ts,         \* the datetime handed to TimeScope.contains
    probe_out,        \* what TimeScope.contains returned
    \* semantic.add_context_to_prompts: arguments, position, returned list
    cx_prompts, context_window, cx_pc, cx_out,
    \* classifier._truncate_with_budget: the lengths of the prompt text and of
    \* the context messages, position, returned texts
    tb_prompt, tb_before, tb_after, tb_pc, tb_out

vcVars == <<vc_categories, vc_custom, vc_pc, vc_out>>
grVars == <<gr_batch, gr_response, gr_pc, gr_out>>
cbVars == <<prompts, max_concurrency, prepared, semaphore, completed_count,
            callback_log, finish_order, task_pc, task_results, main_pc,
            all_results, lock, setup_count, send_count>>
ovVars == <<ov_periods, ov_pc, ov_out, ov_active>>
lgVars == <<store, time_scope, include_sub_sessions, lg_pc, ca_out, ex_session,
            ex_out>>
tsVars == <<scope_str, timezone, now, sc_pc, sc_out, probe_ts, probe_out>>
cxVars == <<cx_prompts, context_window, cx_pc, cx_out>>
tbVars == <<tb_prompt, tb_before, tb_after, tb_pc, tb_out>>
vars == <<vcVars, grVars, cbVars, ovVars, lgVars, tsVars, cxVars, tbVars>>

-----------------------------------------------------------------------------
(* Bounds of the model *)

\* longest label list handed to _validate_categories
MaxLabels == 4
\* longest free-form collaborator response, in tokens
MaxTokens == 3
\* most entries in a well-formed collaborator response
MaxEntries == 3
\* largest group handed to _classify_batch_group on its own
MaxGroupLen == 5
\* longest input of classify_batch
MaxPrompts == 41
\* largest config.max_concurrency
MaxCeiling == 2
\* longest period list and latest instant of calculate_overlap_metrics
MaxPeriods == 3
MaxTime == 2
\* longest session log over all kinds of lines, longest log of submit and
\* complete records only, and the latest instant a record carries
MaxLines == 3
MaxEvents == 5
MaxInstant == 1
\* the latest day a scope expression names, and the number of instants a
\* datetime tells apart within a day
MaxDay == 2
UnitsPerDay == 4
\* longest prompt list and largest window of add_context_to_prompts
MaxContextPrompts == 4
MaxWindow == 2
\* most context messages handed to _truncate_with_budget per direction, and
\* how far the lengths of its texts lie from the limits it tests
MaxMessages == 3
MaxMargin == 1

Min(a, b) == IF a < b THEN a ELSE b
Max(a, b) == IF a > b THEN a ELSE b

\* all sequences over S of length at most n
SeqsUpTo(S, n) == UNION {[1..k -> S] : k \in 0..n}

-----------------------------------------------------------------------------
(* Values of the collaborator's JSON and of Python *)

\* Python's None / JSON null
None == [t |-> "null"]

\* A Python str.  `name` is the text lower-cased and stripped; `upper` says the
\* text has upper-case letters, `padded` that it has surrounding whitespace.
Str(name, upper, padded) ==
    [t |-> "str", name |-> name, upper |-> upper, padded |-> padded]

\* a plain lower-case, unpadded string
Plain(name) == Str(name, FALSE, FALSE)

\* a JSON number, standing for any value that is neither str, list nor object
Num == [t |-> "num"]

\* str.lower()
Lower(s) == [s EXCEPT !.upper = FALSE]

\* str.strip()
Strip(s) == [s EXCEPT !.padded = FALSE]

\* Python truthiness of a str-or-None value: None and "" are falsy
Truthy(v) == v.t = "str" /\ ~(v.name = "" /\ ~v.padded)

\* PromptCategory: the values of the enumeration
PromptCategory ==
    {"question", "implementation", "debugging", "clarification", "review",
     "refactoring", "exploration", "testing", "directive", "feedback", "other"}

\* PromptCategory(value) succeeds: value is exactly one of the enum's values
IsPromptCategory(s) == s.t = "str" /\ ~s.upper /\ ~s.padded /\ s.name \in PromptCategory

\* PromptCategory.OTHER.value
CATCH_ALL == Plain("other")

\* x in list
InSeq(x, seq) == \E i \in 1..Len(seq) : seq[i] = x

-----------------------------------------------------------------------------
(* _validate_categories *)

\* faulty variant: the [:3] cap forgotten
FirstThree_NoCap(categories) == categories

\* categories[:3]
FirstThree(categories) == SubSeq(categories, 1, Min(3, Len(categories)))

\* wildcard if "other" in validated else None
ReturnWildcard(validated, wildcard) ==
    IF InSeq(CATCH_ALL, validated) THEN wildcard ELSE None

\* The for loop over categories[:3]; cat.lower() raises on a value that is no str.
RECURSIVE ValidateLoop(_, _, _, _)
ValidateLoop(cats, i, validated, wildcard) ==
    IF i > Len(cats)
    THEN [raised |-> FALSE, validated |-> validated, wildcard |-> wildcard]
    ELSE IF cats[i].t # "str"
    THEN [raised |-> TRUE, validated |-> <<>>, wildcard |-> None]
    ELSE LET cat_lower == Strip(Lower(cats[i])) IN
         IF IsPromptCategory(cat_lower)
         THEN ValidateLoop(cats, i + 1, Append(validated, cat_lower), wildcard)
         ELSE ValidateLoop(cats, i + 1,
                  IF ~InSeq(CATCH_ALL, validated) THEN Append(validated, CATCH_ALL)
                                              ELSE validated,
                  IF ~Truthy(wildcard) THEN cat_lower ELSE wildcard)

\* _validate_categories(categories, custom_category) for a list `categories`
validate_categories(categories, custom_category) ==
    LET r == ValidateLoop(FirstThree(categories), 1, <<>>, custom_category)
        validated == IF r.validated = <<>> THEN <<CATCH_ALL>> ELSE r.validated
    IN IF r.raised
       THEN [raised |-> TRUE, categories |-> <<>>, wildcard |-> None]
       ELSE [raised |-> FALSE, categories |-> validated,
             wildcard |-> ReturnWildcard(validated, r.wildcard)]

\* labels the collaborator may return: in-taxonomy, in-taxonomy with case and
\* padding, the literal catch-all in both cases, and an out-of-taxonomy label
LabelSet == {Plain("debugging"), Str("testing", TRUE, TRUE), Plain("other"),
             Str("other", TRUE, FALSE), Plain("planning")}

\* custom_category values: null, the empty string, a proposed label
CustomSet == {None, Plain(""), Plain("research")}

vcInit ==
    /\ vc_categories \in SeqsUpTo(LabelSet, MaxLabels)
    /\ vc_custom \in CustomSet
    /\ vc_pc = "input"
    /\ vc_out = [raised |-> FALSE, categories |-> <<>>, wildcard |-> None]

vcIdle ==
    /\ vc_categories = <<>>
    /\ vc_custom = None
    /\ vc_pc = "idle"
    /\ vc_out = [raised |-> FALSE, categories |-> <<>>, wildcard |-> None]

\* one call of _validate_categories
Validate ==
    /\ vc_pc = "input"
    /\ vc_out' = validate_categories(vc_categories, vc_custom)
    /\ vc_pc' = "output"
    /\ UNCHANGED <<vc_categories, vc_custom>>
    /\ UNCHANGED <<grVars, cbVars, ovVars, lgVars, tsVars, cxVars, tbVars>>

-----------------------------------------------------------------------------
(* The collaborator's response text *)

(* A response is a sequence of tokens.  Junk is any text holding no bracket  *)
(* and no code fence; Fence is ``` (with or without the json tag); LB and RB *)
(* are a top-level [ and ]; Num and the objects are JSON values.  Commas and *)
(* whitespace between tokens are not represented.                            *)
Junk == [t |-> "junk"]
Fence == [t |-> "fence"]
LB == [t |-> "lb"]
RB == [t |-> "rb"]

\* the "categories" member of an object: missing, null, or an array
CatAbsent == [t |-> "absent"]
CatList(items) == [t |-> "list", items |-> items]

\* "index" of an object that has none (r.get("index") is None)
NoIndex == 0

\* a JSON object {"index": .., "categories": .., "custom_category": ..}
Obj(index, categories, custom_category) ==
    [t |-> "obj", index |-> index, categories |-> categories,
     custom_category |-> custom_category]

\* the text of this token holds a [ and a ] of its own
HasBrackets(tok) == tok.t = "obj" /\ tok.categories.t = "list"

\* a parsed JSON array
List(elems) == [t |-> "list", elems |-> elems]

\* json.loads of a token sequence: [ok, val, next] for the value starting at i
RECURSIVE ParseValue(_, _), ParseElems(_, _, _)
ParseValue(ts, i) ==
    IF i > Len(ts) THEN [ok |-> FALSE, val |-> None, next |-> i]
    ELSE IF ts[i].t \in {"num", "obj"} THEN [ok |-> TRUE, val |-> ts[i], next |-> i + 1]
    ELSE IF ts[i].t = "lb" THEN ParseElems(ts, i + 1, <<>>)
    ELSE [ok |-> FALSE, val |-> None, next |-> i]

ParseElems(ts, i, acc) ==
    IF i > Len(ts) THEN [ok |-> FALSE, val |-> None, next |-> i]
    ELSE IF ts[i].t = "rb" THEN [ok |-> TRUE, val |-> List(acc), next |-> i + 1]
    ELSE LET r == ParseValue(ts, i) IN
         IF r.ok THEN ParseElems(ts, r.next, Append(acc, r.val)) ELSE r

\* json.loads(text): the value, or ok = FALSE for a JSONDecodeError
json_loads(ts) ==
    LET r == ParseValue(ts, 1) IN
    IF r.ok /\ r.next = Len(ts) + 1 THEN [ok |-> TRUE, val |-> r.val]
    ELSE [ok |-> FALSE, val |-> None]

\* re.search(r"```(?:json)?\s*(\[.*?\])\s*```", text, re.DOTALL): the matches
\* <<i, j>>, group 1 running from token i + 1 to token j
FenceMatches(ts) ==
    {m \in (1..Len(ts)) \X (1..Len(ts)) :
        /\ m[1] + 1 < m[2] /\ m[2] < Len(ts)
        /\ ts[m[1]] = Fence /\ ts[m[1] + 1] = LB
        /\ ts[m[2]] = RB /\ ts[m[2] + 1] = Fence}

\* the leftmost match, and for it the shortest (the quantifier is lazy)
FirstFenceMatch(ts) ==
    CHOOSE m \in FenceMatches(ts) :
        \A o \in FenceMatches(ts) :
            m[1] < o[1] \/ (m[1] = o[1] /\ m[2] <= o[2])

\* positions of the tokens whose text holds a [ , and a ]
OpenPositions(ts) == {i \in 1..Len(ts) : ts[i] = LB \/ HasBrackets(ts[i])}
ClosePositions(ts) == {i \in 1..Len(ts) : ts[i] = RB \/ HasBrackets(ts[i])}

SetMin(S) == CHOOSE x \in S : \A y \in S : x <= y
SetMax(S) == CHOOSE x \in S : \A y \in S : x >= y

\* faulty variant: a response that does not parse yields no entries at all
ParseDefaults_Empty(expected_count) == <<>>

\* the defaults returned on parse failure
ParseDefaults(expected_count) ==
    [i \in 1..expected_count |-> Obj(i, CatList(<<Plain("other")>>), Plain("parse_error"))]

\* json.loads of the text cut out of the response, and the isinstance test
LoadsOrDefaults(loaded, expected_count) ==
    IF loaded.ok /\ loaded.val.t = "list" THEN loaded.val.elems
    ELSE ParseDefaults(expected_count)

\* _parse_batch_response(response, expected_count)
parse_batch_response(response, expected_count) ==
    IF FenceMatches(response) # {}
    THEN LET m == FirstFenceMatch(response) IN
         LoadsOrDefaults(json_loads(SubSeq(response, m[1] + 1, m[2])), expected_count)
    ELSE IF OpenPositions(response) = {} \/ ClosePositions(response) = {}
    THEN LoadsOrDefaults(json_loads(response), expected_count)
    ELSE LET start == SetMin(OpenPositions(response))
             end == SetMax(ClosePositions(response)) IN
         IF end < start
         THEN LoadsOrDefaults(json_loads(response), expected_count)
         ELSE IF response[start] = LB /\ response[end] = RB
         THEN LoadsOrDefaults(json_loads(SubSeq(response, start, end)), expected_count)
         ELSE IF start = end
         \* the first [ and the last ] are those of one object's categories
         THEN response[start].categories.items
         \* the cut starts or ends inside an object: JSONDecodeError
         ELSE ParseDefaults(expected_count)

-----------------------------------------------------------------------------
(* _classify_batch_group *)

\* ExtractedPrompt number k of a run: its text, timestamp and session id
Prompt(k) == [prompt_text |-> k, timestamp |-> k, session_id |-> k % 2]

\* a list of n distinct prompts
PromptList(n) == [k \in 1..n |-> Prompt(k)]

\* the inner loop "for r in parsed_results: if r.get("index") == i + 1":
\* the position of the first entry carrying index i (0: none); .get raises
\* on an entry that is no object
RECURSIVE FindByIndex(_, _, _)
FindByIndex(parsed, i, k) ==
    IF k > Len(parsed) THEN [raised |-> FALSE, pos |-> 0]
    ELSE IF parsed[k].t # "obj" THEN [raised |-> TRUE, pos |-> 0]
    ELSE IF parsed[k].index = i THEN [raised |-> FALSE, pos |-> k]
    ELSE FindByIndex(parsed, i, k + 1)

\* the entry used when no parsed entry serves member i
MissingResult == Obj(NoIndex, CatList(<<Plain("other")>>), Plain("missing_result"))

\* faulty variant: a member no entry names by index gets no entry at all
EntryPosition_IndexOnly(parsed, i, found) == found

\* which parsed entry member i (1-based) takes: the one found by index, else
\* the one at its own position, else none (0)
EntryPosition(parsed, i, found) ==
    IF found # 0 THEN found
    ELSE IF i <= Len(parsed) THEN i
    ELSE 0

\* result_data.get("categories", ["other"]) and _validate_categories on it;
\* slicing null raises
ValidateEntry(result_data) ==
    IF result_data.categories.t = "absent"
    THEN validate_categories(<<Plain("other")>>, result_data.custom_category)
    ELSE IF result_data.categories.t = "list"
    THEN validate_categories(result_data.categories.items, result_data.custom_category)
    ELSE [raised |-> TRUE, categories |-> <<>>, wildcard |-> None]

\* one turn of the loop over the group: the ClassifiedPrompt of member i.
\* `entry` records which parsed entry it was built from (0: MissingResult).
MemberResult(prompt, parsed, i) ==
    LET f == FindByIndex(parsed, i, 1)
        pos == EntryPosition(parsed, i, f.pos)
        result_data == IF pos = 0 THEN MissingResult ELSE parsed[pos]
        v == ValidateEntry(result_data)
    IN IF f.raised \/ v.raised
       THEN [raised |-> TRUE]
       ELSE [raised |-> FALSE,
             prompt_text |-> prompt.prompt_text,
             timestamp |-> prompt.timestamp,
             session_id |-> prompt.session_id,
             categories |-> v.categories,
             wildcard_category |-> v.wildcard,
             entry |-> pos]

\* _classify_batch_group(batch) when the collaborator answers `response`:
\* the list of ClassifiedPrompt, or raised when an exception leaves the method
classify_batch_group(batch, response) ==
    LET parsed == parse_batch_response(response, Len(batch))
        results == [i \in 1..Len(batch) |-> MemberResult(batch[i], parsed, i)]
    IN IF \E i \in 1..Len(batch) : results[i].raised
       THEN [raised |-> TRUE, results |-> <<>>]
       ELSE [raised |-> FALSE, results |-> results]

\* the JSON values an array of a response is made of: a number, and objects
\* with and without index, with a label list, no categories, null categories
Entries ==
    {Num,
     Obj(1, CatList(<<Plain("debugging")>>), None),
     Obj(2, CatList(<<Plain("planning")>>), None),
     Obj(NoIndex, CatAbsent, Plain("research")),
     Obj(1, None, None)}

\* the tokens a response is made of
Tokens == {Junk, Fence, LB, RB} \cup Entries

\* the ways the collaborator presents `body`: the bare array, the array in a
\* code fence, either one inside prose, the entries with no array around
\* them, an array never closed, and prose with brackets of its own
Wrappings == {"raw", "fenced", "prose_raw", "prose_fenced", "bare", "unclosed",
              "bracket_prose"}

Wrap(kind, body) ==
    CASE kind = "raw" -> <<LB>> \o body \o <<RB>>
      [] kind = "fenced" -> <<Fence, LB>> \o body \o <<RB, Fence>>
      [] kind = "prose_raw" -> <<Junk, LB>> \o body \o <<RB, Junk>>
      [] kind = "prose_fenced" -> <<Junk, Fence, LB>> \o body \o <<RB, Fence, Junk>>
      [] kind = "bare" -> body
      [] kind = "unclosed" -> <<LB>> \o body
      [] kind = "bracket_prose" -> <<LB, Junk, RB, LB>> \o body \o <<RB>>

\* the response texts of the model: every token sequence up to MaxTokens and
\* every wrapping of every entry list up to MaxEntries
Responses ==
    SeqsUpTo(Tokens, MaxTokens)
    \cup {Wrap(w, body) : w \in Wrappings, body \in SeqsUpTo(Entries, MaxEntries)}

grInit ==
    /\ gr_batch \in {PromptList(n) : n \in 0..MaxGroupLen}
    /\ gr_response \in Responses
    /\ gr_pc = "called"
    /\ gr_out = <<>>

grIdle ==
    /\ gr_batch = <<>>
    /\ gr_response = <<>>
    /\ gr_pc = "idle"
    /\ gr_out = <<>>

\* one call of _classify_batch_group
ClassifyGroup ==
    /\ gr_pc = "called"
    /\ LET r == classify_batch_group(gr_batch, gr_response) IN
         /\ gr_pc' = IF r.raised THEN "raised" ELSE "returned"
         /\ gr_out' = r.results
    /\ UNCHANGED <<gr_batch, gr_response>>
    /\ UNCHANGED <<vcVars, cbVars, ovVars, lgVars, tsVars, cxVars, tbVars>>

-----------------------------------------------------------------------------
(* PromptClassifier.classify_batch *)

\* constants.SEMANTIC_BATCH_SIZE
SEMANTIC_BATCH_SIZE == 20

\* prompts_with_context[i : i + batch_size] for the b-th value of i (b from 1)
BatchSlice(ps, b) ==
    SubSeq(ps, (b - 1) * SEMANTIC_BATCH_SIZE + 1,
           Min(b * SEMANTIC_BATCH_SIZE, Len(ps)))

\* faulty variant: only the full groups are formed
NumBatches_Floor(total) == total \div SEMANTIC_BATCH_SIZE

\* len(range(0, total, batch_size))
NumBatches(total) == (total + SEMANTIC_BATCH_SIZE - 1) \div SEMANTIC_BATCH_SIZE

\* batches = [prompts_with_context[i : i + batch_size] for i in range(0, total, batch_size)]
Batches(ps) == [b \in 1..NumBatches(Len(ps)) |-> BatchSlice(ps, b)]

\* the concatenation of the lists seqs[1], seqs[2], ...
RECURSIVE Flatten(_)
Flatten(seqs) ==
    IF seqs = <<>> THEN <<>> ELSE Head(seqs) \o Flatten(Tail(seqs))

\* indexed_results.sort(key=lambda x: x[0]) on pairs <<batch_index, results>>
\* whose batch indexes are 0..n-1, each once
SortByIndex(indexed) ==
    [k \in 1..Len(indexed) |->
        indexed[CHOOSE j \in 1..Len(indexed) : indexed[j][1] = k - 1]]

\* faulty variant: the results merged in the order the groups completed, unsorted
MergeResults_AsCompleted(results, order) ==
    Flatten([k \in 1..Len(order) |-> results[order[k] + 1][2]])

\* what classify_batch builds once asyncio.gather returned: gather yields the
\* tasks' results in the order of the tasks, whatever the order they finished
\* in; they are sorted by batch index and flattened
MergeResults(results, order) ==
    LET indexed_results == [b \in 1..Len(results) |-> results[b]]
        sorted == SortByIndex(indexed_results)
    IN Flatten([k \in 1..Len(sorted) |-> sorted[k][2]])

\* faulty variant: the semaphore never makes a task wait
CanAcquire_Always(permits) == TRUE

\* asyncio.Semaphore.acquire returns without waiting
CanAcquire(permits) == permits > 0

\* faulty variant: gather(return_exceptions=True) style, the exception is swallowed
AfterException_Swallowed(pc) == pc

\* an exception leaving a task reaches the awaiting classify_batch through
\* asyncio.gather; the first one ends the call
AfterException(pc) == IF pc = "gathering" THEN "error" ELSE pc

\* a complete answer for a group of n: one object per member, by index
FullAnswer(n) == [i \in 1..n |-> Obj(i, CatList(<<Plain("debugging")>>), None)]

\* the same answer with its entries in reverse order
Reversed(seq) == [i \in 1..Len(seq) |-> seq[Len(seq) + 1 - i]]

\* what the collaborator answers for a group of n in a batch run: a complete
\* fenced answer, a complete answer in reverse order, prose, a single entry
\* without index, an array of a number
BatchResponses(n) ==
    {Wrap("fenced", FullAnswer(n)),
     Wrap("prose_raw", Reversed(FullAnswer(n))),
     <<Junk>>,
     Wrap("raw", <<Obj(NoIndex, CatAbsent, Plain("research"))>>),
     Wrap("raw", <<Num>>)}

Tasks == DOMAIN task_pc

cbInit ==
    /\ prompts \in {PromptList(n) : n \in 0..MaxPrompts}
    /\ max_concurrency \in 1..MaxCeiling
    /\ prepared = "None"
    /\ semaphore = 0
    /\ completed_count = 0
    /\ callback_log = <<>>
    /\ finish_order = <<>>
    /\ task_pc = <<>>
    /\ task_results = <<>>
    /\ main_pc = "called"
    /\ all_results = <<>>
    /\ lock = 0
    /\ setup_count = 0
    /\ send_count = <<>>

\* classify_batch up to the await of asyncio.gather: the early return on an
\* empty input, else the batches, the semaphore and one task per batch
Call ==
    /\ main_pc = "called"
    /\ IF Len(prompts) = 0
       THEN /\ main_pc' = "returned"
            /\ UNCHANGED <<semaphore, task_pc, task_results, send_count>>
       ELSE /\ main_pc' = "gathering"
            /\ semaphore' = max_concurrency
            /\ task_pc' = [b \in 1..NumBatches(Len(prompts)) |-> "created"]
            /\ task_results' = [b \in 1..NumBatches(Len(prompts)) |-> <<b - 1, <<>>>>]
            /\ send_count' = [b \in 1..NumBatches(Len(prompts)) |-> 0]
    /\ UNCHANGED <<prompts, max_concurrency, prepared, completed_count,
                   callback_log, finish_order, all_results, lock, setup_count>>
    /\ UNCHANGED <<vcVars, grVars, ovVars, lgVars, tsVars, cxVars, tbVars>>

\* process_batch enters "async with semaphore" and runs _classify_batch_group
\* up to its first await: the setup when self._prepared is None, else the
\* collaborator call
Acquire(b) ==
    /\ task_pc[b] = "created"
    /\ CanAcquire(semaphore)
    /\ semaphore' = semaphore - 1
    /\ IF prepared = "None"
       THEN /\ task_pc' = [task_pc EXCEPT ![b] = "loading"]
            /\ setup_count' = setup_count + 1
            /\ UNCHANGED send_count
       ELSE /\ task_pc' = [task_pc EXCEPT ![b] = "executing"]
            /\ send_count' = [send_count EXCEPT ![b] = @ + 1]
            /\ UNCHANGED setup_count
    /\ UNCHANGED <<prompts, max_concurrency, prepared, completed_count,
                   callback_log, finish_order, task_results, main_pc, all_results,
                   lock>>
    /\ UNCHANGED <<vcVars, grVars, ovVars, lgVars, tsVars, cxVars, tbVars>>

\* _get_prepared_bundle: load_bundle, compose and prepare succeed; the handle
\* is stored and the task goes on to the collaborator call
SetupDone(b) ==
    /\ task_pc[b] = "loading"
    /\ prepared' = "bundle"
    /\ task_pc' = [task_pc EXCEPT ![b] = "executing"]
    /\ send_count' = [send_count EXCEPT ![b] = @ + 1]
    /\ UNCHANGED <<prompts, max_concurrency, semaphore, completed_count,
                   callback_log, finish_order, task_results, main_pc, all_results,
                   lock, setup_count>>
    /\ UNCHANGED <<vcVars, grVars, ovVars, lgVars, tsVars, cxVars, tbVars>>

\* _get_prepared_bundle raises: the exception leaves "async with semaphore"
\* (the permit is returned) and the task
SetupFails(b) ==
    /\ task_pc[b] = "loading"
    /\ task_pc' = [task_pc EXCEPT ![b] = "failed_setup"]
    /\ semaphore' = semaphore + 1
    /\ main_pc' = AfterException(main_pc)
    /\ UNCHANGED <<prompts, max_concurrency, prepared, completed_count,
                   callback_log, finish_order, task_results, all_results,
                   lock, setup_count, send_count>>
    /\ UNCHANGED <<vcVars, grVars, ovVars, lgVars, tsVars, cxVars, tbVars>>

\* session.execute returns `response`: the rest of _classify_batch_group
\* runs without another await and builds the results; process_batch then
\* stands before "async with lock".  An exception raised while building the
\* results leaves "async with semaphore" (the permit is returned) and the task.
Respond(b, response) ==
    /\ task_pc[b] = "executing"
    /\ LET batch == Batches(prompts)[b]
           r == classify_batch_group(batch, response)
       IN IF r.raised
          THEN /\ task_pc' = [task_pc EXCEPT ![b] = "failed_response"]
               /\ main_pc' = AfterException(main_pc)
               /\ semaphore' = semaphore + 1
               /\ UNCHANGED task_results
          ELSE /\ task_pc' = [task_pc EXCEPT ![b] = "locking"]
               /\ task_results' = [task_results EXCEPT ![b] = <<b - 1, r.results>>]
               /\ UNCHANGED <<main_pc, semaphore>>
    /\ UNCHANGED <<prompts, max_concurrency, prepared, completed_count,
                   callback_log, finish_order, all_results, lock, setup_count,
                   send_count>>
    /\ UNCHANGED <<vcVars, grVars, ovVars, lgVars, tsVars, cxVars, tbVars>>

\* faulty variant: the lock never makes a task wait
LockFree_Always(holder) == TRUE

\* asyncio.Lock.acquire returns without waiting
LockFree(holder) == holder = 0

\* process_batch enters "async with lock" and advances the counter
EnterLock(b) ==
    /\ task_pc[b] = "locking"
    /\ LockFree(lock)
    /\ lock' = b
    /\ completed_count' = completed_count + Len(Batches(prompts)[b])
    /\ task_pc' = [task_pc EXCEPT ![b] = "locked"]
    /\ UNCHANGED <<prompts, max_concurrency, prepared, semaphore, callback_log,
                   finish_order, task_results, main_pc, all_results, setup_count,
                   send_count>>
    /\ UNCHANGED <<vcVars, grVars, ovVars, lgVars, tsVars, cxVars, tbVars>>

\* progress_callback(completed_count, total) is called with the counter as
\* it stands; the lock and then the permit are returned and the task returns
Notify(b) ==
    /\ task_pc[b] = "locked"
    /\ callback_log' = Append(callback_log, <<completed_count, Len(prompts)>>)
    /\ lock' = 0
    /\ semaphore' = semaphore + 1
    /\ finish_order' = Append(finish_order, b - 1)
    /\ task_pc' = [task_pc EXCEPT ![b] = "done"]
    /\ UNCHANGED <<prompts, max_concurrency, prepared, completed_count,
                   task_results, main_pc, all_results, setup_count, send_count>>
    /\ UNCHANGED <<vcVars, grVars, ovVars, lgVars, tsVars, cxVars, tbVars>>

\* asyncio.gather returns once every task returned; the results are sorted
\* by batch index, flattened and returned
Return ==
    /\ main_pc = "gathering"
    /\ \A b \in Tasks : task_pc[b] = "done"
    /\ all_results' = MergeResults(task_results, finish_order)
    /\ main_pc' = "returned"
    /\ UNCHANGED <<prompts, max_concurrency, prepared, semaphore, completed_count,
                   callback_log, finish_order, task_pc, task_results, lock,
                   setup_count, send_count>>
    /\ UNCHANGED <<vcVars, grVars, ovVars, lgVars, tsVars, cxVars, tbVars>>

Next ==
    \/ Call
    \/ \E b \in Tasks : Acquire(b)
    \/ \E b \in Tasks : SetupDone(b)
    \/ \E b \in Tasks : SetupFails(b)
    \/ \E b \in Tasks : \E response \in BatchResponses(Len(Batches(prompts)[b])) :
          Respond(b, response)
    \/ \E b \in Tasks : EnterLock(b)
    \/ \E b \in Tasks : Notify(b)
    \/ Return

-----------------------------------------------------------------------------
(* metrics.calculate_overlap_metrics *)

\* session ids of the periods
SessionIds == {"A", "B"}

\* AutonomyPeriod values: instants are integers, end >= start
Periods ==
    {[start |-> a, end |-> b, session_id |-> sid] :
        a \in 0..MaxTime, b \in 0..MaxTime, sid \in SessionIds}

\* events.append((p.start.timestamp(), "start", p.session_id)) and the same
\* for the end, period after period
RECURSIVE BuildEvents(_)
BuildEvents(periods) ==
    IF periods = <<>> THEN <<>>
    ELSE <<[ts |-> Head(periods).start, event_type |-> "start",
            session_id |-> Head(periods).session_id],
           [ts |-> Head(periods).end, event_type |-> "end",
            session_id |-> Head(periods).session_id]>>
         \o BuildEvents(Tail(periods))

\* the sort key (e[0], 0 if e[1] == "end" else 1), compared as tuples
KeyLE(a, b) ==
    \/ a.ts < b.ts
    \/ /\ a.ts = b.ts
       /\ (IF a.event_type = "end" THEN 0 ELSE 1) <= (IF b.event_type = "end" THEN 0 ELSE 1)

\* e put into a sorted list behind every element whose key is not greater
RECURSIVE InsertSorted(_, _)
InsertSorted(e, sorted) ==
    IF sorted = <<>> THEN <<e>>
    ELSE IF KeyLE(Head(sorted), e) THEN <<Head(sorted)>> \o InsertSorted(e, Tail(sorted))
    ELSE <<e>> \o sorted

\* list.sort(key=...): stable, equal keys keep the order they had
RECURSIVE SortEvents(_, _)
SortEvents(events, sorted) ==
    IF events = <<>> THEN sorted
    ELSE SortEvents(Tail(events), InsertSorted(Head(events), sorted))

\* faulty variant: the session's own id is not taken out of the active set
OtherActive_WithSelf(active_sessions, session_id) == active_sessions

\* other_active = active_sessions - {session_id}
OtherActive(active_sessions, session_id) == active_sessions \ {session_id}

\* the sweep over the sorted events
RECURSIVE Sweep(_, _, _, _)
Sweep(events, active_sessions, overlap_count, max_parallel) ==
    IF events = <<>>
    THEN [overlap_count |-> overlap_count, max_parallel_sessions |-> max_parallel,
          active_sessions |-> active_sessions]
    ELSE LET e == Head(events) IN
         IF e.event_type = "start"
         THEN LET other_active == OtherActive(active_sessions, e.session_id)
                  added == active_sessions \cup {e.session_id}
              IN Sweep(Tail(events), added,
                       IF other_active # {} THEN overlap_count + 1 ELSE overlap_count,
                       Max(max_parallel, Cardinality(added)))
         ELSE Sweep(Tail(events), active_sessions \ {e.session_id},
                    overlap_count, max_parallel)

\* calculate_overlap_metrics(periods); active_sessions is the local set as
\* the loop leaves it
calculate_overlap_metrics(periods) ==
    IF periods = <<>>
    THEN [overlap_count |-> 0, max_parallel_sessions |-> 0, active_sessions |-> {}]
    ELSE Sweep(SortEvents(BuildEvents(periods), <<>>), {}, 0, 0)

ovInit ==
    /\ ov_periods \in SeqsUpTo({p \in Periods : p.end >= p.start}, MaxPeriods)
    /\ ov_pc = "called"
    /\ ov_out = [overlap_count |-> 0, max_parallel_sessions |-> 0]
    /\ ov_active = {}

\* one call of calculate_overlap_metrics
CalculateOverlap ==
    /\ ov_pc = "called"
    /\ LET r == calculate_overlap_metrics(ov_periods) IN
         /\ ov_out' = [overlap_count |-> r.overlap_count,
                       max_parallel_sessions |-> r.max_parallel_sessions]
         /\ ov_active' = r.active_sessions
    /\ ov_pc' = "returned"
    /\ UNCHANGED ov_periods
    /\ UNCHANGED <<vcVars, grVars, cbVars, lgVars, tsVars, cxVars, tbVars>>

-----------------------------------------------------------------------------
(* parser.py and semantic.py: reading events.jsonl *)

\* the "ts" field of a record: absent, null or "" (falsy); a string that
\* datetime.fromisoformat rejects; a number; an ISO string of an instant
\* (kinds "missing", "unparseable", "number", "iso")
Ts(kind, instant) == [kind |-> kind, instant |-> instant]

\* one line of events.jsonl: text json.loads rejects, JSON that is not an
\* object, or an object with its "event", "ts" and data.prompt
NotARecord(json) == [json |-> json]
Rec(event, ts, prompt) ==
    [json |-> "object", event |-> event, ts |-> ts, prompt |-> prompt]

Submit(k) == Rec("prompt:submit", Ts("iso", k), "p")
Complete(k) == Rec("prompt:complete", Ts("iso", k), "")

\* TimeScope.contains(ts), ts an instant on the UTC line
contains(scope, ts) == scope.start_utc <= ts /\ ts <= scope.end_utc

\* what one line does to the loop of parse_session_events: "raise" leaves the
\* function, "skip" is a continue, the rest reach the event test
LineOutcome(rec) ==
    IF rec.json = "invalid" THEN "skip"             \* json.JSONDecodeError, caught
    ELSE IF rec.json # "object" THEN "raise"        \* rec.get: AttributeError
    ELSE IF rec.ts.kind = "missing" THEN "skip"     \* if not ts_str: continue
    ELSE IF rec.ts.kind = "number" THEN "raise"     \* fromisoformat: TypeError
    ELSE IF rec.ts.kind = "unparseable" THEN "skip" \* ValueError, caught
    ELSE rec.event

\* the read loop of parse_session_events over the lines of the file
RECURSIVE ReadEvents(_, _, _)
ReadEvents(lines, submits, completes) ==
    IF lines = <<>>
    THEN [raised |-> FALSE, submits |-> submits, completes |-> completes]
    ELSE LET rec == Head(lines)
             outcome == LineOutcome(rec)
         IN IF outcome = "raise"
            THEN [raised |-> TRUE, submits |-> submits, completes |-> completes]
            ELSE IF outcome = "prompt:submit"
            THEN ReadEvents(Tail(lines), Append(submits, rec.ts.instant), completes)
            ELSE IF outcome = "prompt:complete"
            THEN ReadEvents(Tail(lines), submits, Append(completes, rec.ts.instant))
            ELSE ReadEvents(Tail(lines), submits, completes)

\* faulty variant: a submit is paired with the next complete that follows
\* an in-scope submit, out-of-scope submits taking no complete
RECURSIVE PairPeriods_InScopeOnly(_, _, _, _, _)
PairPeriods_InScopeOnly(submits, completes, scope, session_id, i) ==
    IF submits = <<>> \/ completes = <<>> THEN <<>>
    ELSE IF contains(scope, Head(submits))
    THEN <<[start |-> Head(submits), end |-> Head(completes),
            session_id |-> session_id]>>
         \o PairPeriods_InScopeOnly(Tail(submits), Tail(completes), scope, session_id, i)
    ELSE PairPeriods_InScopeOnly(Tail(submits), completes, scope, session_id, i)

\* faulty variant: every pair gives a period, in scope or not
RECURSIVE PairPeriods_NoScope(_, _, _, _, _)
PairPeriods_NoScope(submits, completes, scope, session_id, i) ==
    IF i > Min(Len(submits), Len(completes)) THEN <<>>
    ELSE <<[start |-> submits[i], end |-> completes[i], session_id |-> session_id]>>
         \o PairPeriods_NoScope(submits, completes, scope, session_id, i + 1)

\* for i in range(min(len(submits), len(completes))): the period of pair i if
\* its submit is in scope
RECURSIVE PairPeriods(_, _, _, _, _)
PairPeriods(submits, completes, scope, session_id, i) ==
    IF i > Min(Len(submits), Len(completes)) THEN <<>>
    ELSE (IF contains(scope, submits[i])
          THEN <<[start |-> submits[i], end |-> completes[i],
                  session_id |-> session_id]>>
          ELSE <<>>)
         \o PairPeriods(submits, completes, scope, session_id, i + 1)

\* sum(1 for ts in submits if time_scope.contains(ts))
TotalPromptsInScope(submits, scope) ==
    Cardinality({i \in 1..Len(submits) : contains(scope, submits[i])})

\* parse_session_events(session_path, time_scope): the SessionInfo, or raised
parse_session_events(session, scope) ==
    LET read == ReadEvents(session.lines, <<>>, <<>>) IN
    [raised |-> read.raised,
     session_id |-> session.session_id,
     autonomy_periods |->
         IF read.raised THEN <<>>
         ELSE PairPeriods(read.submits, read.completes, scope, session.session_id, 1),
     total_prompts_in_scope |->
         IF read.raised THEN 0
         ELSE TotalPromptsInScope(read.submits, scope)]

\* is_sub_session(session_id): "_" in session_id
SubSessionIds == {"0000-f091_builder"}
is_sub_session(session_id) == session_id \in SubSessionIds

\* p put into a list sorted by start behind every element that does not
\* start later
RECURSIVE InsertByStart(_, _)
InsertByStart(p, sorted) ==
    IF sorted = <<>> THEN <<p>>
    ELSE IF Head(sorted).start <= p.start
    THEN <<Head(sorted)>> \o InsertByStart(p, Tail(sorted))
    ELSE <<p>> \o sorted

\* all_periods.sort(key=lambda p: p.start): stable
RECURSIVE SortByStart(_, _)
SortByStart(periods, sorted) ==
    IF periods = <<>> THEN sorted
    ELSE SortByStart(Tail(periods), InsertByStart(Head(periods), sorted))

\* the loop of collect_autonomy_periods over the discovered sessions; infos
\* keeps the SessionInfo of every session it parsed
RECURSIVE CollectLoop(_, _, _, _, _, _)
CollectLoop(sessions, scope, include, all_periods, total_prompts, infos) ==
    IF sessions = <<>>
    THEN [raised |-> FALSE, periods |-> SortByStart(all_periods, <<>>),
          total_prompts_sent |-> total_prompts, infos |-> infos]
    ELSE IF ~include /\ is_sub_session(Head(sessions).session_id)
    THEN CollectLoop(Tail(sessions), scope, include, all_periods, total_prompts, infos)
    ELSE LET session_info == parse_session_events(Head(sessions), scope) IN
         IF session_info.raised
         THEN [raised |-> TRUE, periods |-> <<>>, total_prompts_sent |-> 0,
               infos |-> infos]
         ELSE CollectLoop(Tail(sessions), scope, include,
                          all_periods \o session_info.autonomy_periods,
                          total_prompts + session_info.total_prompts_in_scope,
                          Append(infos, session_info))

\* collect_autonomy_periods(time_scope, include_sub_sessions=...)
collect_autonomy_periods(sessions, scope, include) ==
    CollectLoop(sessions, scope, include, <<>>, 0, <<>>)

\* the loop of extract_prompts_from_session over the lines of the file
RECURSIVE ExtractLoop(_, _, _, _)
ExtractLoop(lines, scope, session_id, extracted) ==
    IF lines = <<>> THEN [raised |-> FALSE, prompts |-> extracted]
    ELSE LET rec == Head(lines) IN
         IF rec.json = "invalid"                    \* json.JSONDecodeError, caught
         THEN ExtractLoop(Tail(lines), scope, session_id, extracted)
         ELSE IF rec.json # "object"                \* rec.get: AttributeError
         THEN [raised |-> TRUE, prompts |-> extracted]
         ELSE IF rec.event # "prompt:submit" \/ rec.ts.kind = "missing"
         THEN ExtractLoop(Tail(lines), scope, session_id, extracted)
         ELSE IF rec.ts.kind = "number"             \* fromisoformat: TypeError
         THEN [raised |-> TRUE, prompts |-> extracted]
         ELSE IF rec.ts.kind = "unparseable"        \* ValueError, caught
         THEN ExtractLoop(Tail(lines), scope, session_id, extracted)
         ELSE IF ~contains(scope, rec.ts.instant) \/ rec.prompt = ""
         THEN ExtractLoop(Tail(lines), scope, session_id, extracted)
         ELSE ExtractLoop(Tail(lines), scope, session_id,
                          Append(extracted,
                                 [prompt_text |-> rec.prompt,
                                  timestamp |-> rec.ts.instant,
                                  session_id |-> session_id,
                                  index_in_session |-> Len(extracted)]))

\* extract_prompts_from_session(session_path, time_scope)
extract_prompts_from_session(session, scope) ==
    ExtractLoop(session.lines, scope, session.session_id, <<>>)

\* the instants records carry, and the scopes of a run (start_utc <= end_utc)
Instants == 0..MaxInstant
Scopes ==
    {sc \in [start_utc : Instants, end_utc : Instants] : sc.start_utc <= sc.end_utc}

\* the lines a log is made of: every kind of malformed line, a record of
\* another event, and submit and complete records at every instant
EventLines == {Submit(k) : k \in Instants} \cup {Complete(k) : k \in Instants}
LineKinds ==
    {NotARecord("invalid"), NotARecord("not_object"),
     Rec("prompt:submit", Ts("missing", 0), "p"),
     Rec("prompt:submit", Ts("unparseable", 0), "p"),
     Rec("prompt:submit", Ts("number", 0), "p"),
     Rec("tool:pre", Ts("iso", 0), ""),
     Rec("prompt:submit", Ts("iso", 0), "")}
    \cup EventLines

\* the logs of one session: short logs over every kind of line, and longer
\* logs of submit and complete records written by a running clock (no
\* record carries an earlier instant than the record before it)
Logs ==
    SeqsUpTo(LineKinds, MaxLines)
    \cup {lines \in SeqsUpTo(EventLines, MaxEvents) :
              \A i \in 1..Len(lines) - 1 : lines[i].ts.instant <= lines[i + 1].ts.instant}

\* the logs of the sessions of a store that holds two
PairLogs ==
    {<<>>} \cup {<<a>> : a \in EventLines} \cup {<<a, b>> : a \in EventLines, b \in EventLines}

Session(session_id, lines) == [session_id |-> session_id, lines |-> lines]

\* what discover_sessions finds: nothing, one root session, or a root
\* session and then another root session or a sub-session
Stores ==
    {<<>>}
    \cup {<<Session("A", lines)>> : lines \in Logs}
    \cup {<<Session("A", l1), Session(sid, l2)>> :
              l1 \in PairLogs, l2 \in PairLogs, sid \in {"B"} \cup SubSessionIds}

lgInit ==
    /\ store \in Stores
    /\ time_scope \in Scopes
    /\ include_sub_sessions \in
          (IF \E i \in 1..Len(store) : is_sub_session(store[i].session_id)
           THEN BOOLEAN ELSE {FALSE})
    /\ lg_pc = "collect"
    /\ ca_out = [raised |-> FALSE, periods |-> <<>>, total_prompts_sent |-> 0,
                 infos |-> <<>>]
    /\ ex_session = 0
    /\ ex_out = [raised |-> FALSE, prompts |-> <<>>]

\* one call of collect_autonomy_periods
CollectAutonomyPeriods ==
    /\ lg_pc = "collect"
    /\ ca_out' = collect_autonomy_periods(store, time_scope, include_sub_sessions)
    /\ lg_pc' = "extract"
    /\ UNCHANGED <<store, time_scope, include_sub_sessions, ex_session, ex_out>>
    /\ UNCHANGED <<vcVars, grVars, cbVars, ovVars, tsVars, cxVars, tbVars>>

\* one call of extract_prompts_from_session on a session of the store
ExtractPrompts(s) ==
    /\ lg_pc = "extract"
    /\ ex_session' = s
    /\ ex_out' = extract_prompts_from_session(store[s], time_scope)
    /\ lg_pc' = "done"
    /\ UNCHANGED <<store, time_scope, include_sub_sessions, ca_out>>
    /\ UNCHANGED <<vcVars, grVars, cbVars, ovVars, tsVars, cxVars, tbVars>>

-----------------------------------------------------------------------------
(* time_scope.py *)

(* Time is counted in units, the resolution of datetime (a microsecond in   *)
(* the code): a day has UnitsPerDay of them, unit 0 of a day is 00:00:00    *)
(* sharp, unit 1 is 00:00:00.000001 and unit UnitsPerDay - 1 is             *)
(* 23:59:59.999999.  Day 0 is a Monday.  A wall-clock reading is            *)
(* day * UnitsPerDay + unit; a zone is its offset from UTC in units.        *)
DaysPerWeek == 7

\* datetime.replace(hour=0, minute=0, second=0, microsecond=1) and
\* datetime.replace(hour=23, minute=59, second=59, microsecond=999999)
FirstUnit == 1

\* the unit at which hour becomes 12
Noon == UnitsPerDay \div 2

DayOf(wall) == wall \div UnitsPerDay
UnitOf(wall) == wall % UnitsPerDay

\* datetime.weekday(): Monday is 0
weekday(wall) == DayOf(wall) % DaysPerWeek

\* wall + timedelta(days=n)
PlusDays(wall, n) == wall + n * UnitsPerDay

\* .replace(hour=0, minute=0, second=0, microsecond=1)
StartOfDay(wall) == DayOf(wall) * UnitsPerDay + FirstUnit

\* .replace(hour=23, minute=59, second=59, microsecond=999999)
EndOfDay(wall) == DayOf(wall) * UnitsPerDay + UnitsPerDay - 1

\* a datetime: its wall-clock reading and, when it is aware, the offset of
\* its tzinfo
Aware(wall, tz) == [wall |-> wall, aware |-> TRUE, offset |-> tz]
Naive(wall) == [wall |-> wall, aware |-> FALSE, offset |-> 0]

\* the instant of an aware datetime on the UTC line
ToUtc(dt) == dt.wall - dt.offset

\* dt.astimezone(tz), of an aware datetime
astimezone(dt, tz) == Aware(ToUtc(dt) + tz, tz)

\* faulty variant: the end of the scope is not part of it
InScope_EndExcluded(scope, ts) ==
    ToUtc(scope.start_utc) <= ToUtc(ts) /\ ToUtc(ts) < ToUtc(scope.end_utc)

\* self.start_utc <= ts <= self.end_utc on aware datetimes
InScope(scope, ts) ==
    ToUtc(scope.start_utc) <= ToUtc(ts) /\ ToUtc(ts) <= ToUtc(scope.end_utc)

\* TimeScope.contains(ts): a naive ts is read as UTC
TimeScope_contains(scope, ts) ==
    InScope(scope, IF ~ts.aware THEN Aware(ts.wall, 0) ELSE ts)

\* a date text of a scope expression: "%Y/%m/%d" of a day, with or without
\* blanks around it, or text strptime rejects
DateText(day, padded) == [text |-> "date", day |-> day, padded |-> padded]
JunkText == [text |-> "junk"]
DefaultWord == [text |-> "default"]

\* datetime.strptime(s.strip(), "%Y/%m/%d"): the naive midnight of the day,
\* or ValueError
strptime(s) ==
    IF s.text = "date"
    THEN [raised |-> FALSE, value |-> s.day * UnitsPerDay]
    ELSE [raised |-> TRUE, value |-> 0]

\* faulty variant: Monday morning keeps the week that ended the day before
DaysSinceMonday_NoRollBack(now_local) == weekday(now_local.wall)

\* days_since_monday, 7 on a Monday before noon
DaysSinceMonday(now_local) ==
    IF weekday(now_local.wall) = 0 /\ UnitOf(now_local.wall) < Noon
    THEN DaysPerWeek
    ELSE weekday(now_local.wall)

TimeScope(start_local, end_local, tz) ==
    [raised |-> FALSE,
     start_utc |-> astimezone(start_local, 0),
     end_utc |-> astimezone(end_local, 0),
     timezone |-> tz]

ValueError == [raised |-> TRUE]

\* parse_time_scope(scope_str, timezone), the expression given as its parts
\* between the " - " separators; instant is what the clock reads
parse_time_scope(parts, tz, instant) ==
    IF parts = <<DefaultWord>>
    THEN LET now_local == astimezone(Aware(instant, 0), tz)
             last_monday ==
                 StartOfDay(PlusDays(now_local.wall,
                                     -(DaysSinceMonday(now_local) + DaysPerWeek)))
             last_sunday == EndOfDay(PlusDays(last_monday, 6))
         IN TimeScope(Aware(last_monday, tz), Aware(last_sunday, tz), tz)
    ELSE IF Len(parts) > 1
    THEN IF Len(parts) # 2 THEN ValueError     \* start_str, end_str = split
         ELSE LET start_date == strptime(parts[1])
                  end_date == strptime(parts[2])
              IN IF start_date.raised \/ end_date.raised THEN ValueError
                 ELSE TimeScope(Aware(StartOfDay(start_date.value), tz),
                                Aware(EndOfDay(end_date.value), tz), tz)
    ELSE LET date == strptime(parts[1]) IN
         IF date.raised THEN ValueError
         ELSE TimeScope(Aware(StartOfDay(date.value), tz),
                        Aware(EndOfDay(date.value), tz), tz)

\* the zones of a run, the date texts and the scope expressions
Zones == {-1, 0, 1}
ScopeExprs ==
    LET DateTexts ==
            {DateText(d, padded) : d \in 0..MaxDay, padded \in BOOLEAN} \cup {JunkText}
    IN {<<DefaultWord>>}
       \cup {<<a>> : a \in DateTexts}
       \cup {<<a, b>> : a \in DateTexts, b \in DateTexts}
       \cup {<<DateText(0, FALSE), DateText(0, FALSE), DateText(0, FALSE)>>}

\* the instants of one week, at which "default" is evaluated
Nows ==
    {d * UnitsPerDay + u :
        d \in 2 * DaysPerWeek .. 3 * DaysPerWeek - 1, u \in 0..UnitsPerDay - 1}

\* the datetimes contains is asked about: from a day before the scope to a
\* day after it, aware in any zone or naive
Probes(scope) ==
    LET lo == Min(ToUtc(scope.start_utc), ToUtc(scope.end_utc)) - UnitsPerDay
        hi == Max(ToUtc(scope.start_utc), ToUtc(scope.end_utc)) + UnitsPerDay
    IN {Aware(w, tz) : w \in lo..hi, tz \in Zones} \cup {Naive(w) : w \in lo..hi}

NoScope == TimeScope(Aware(0, 0), Aware(0, 0), 0)

tsInit ==
    /\ scope_str \in ScopeExprs
    /\ timezone \in Zones
    /\ now \in (IF scope_str = <<DefaultWord>> THEN Nows ELSE {0})
    /\ sc_pc = "parse"
    /\ sc_out = NoScope
    /\ probe_ts = Naive(0)
    /\ probe_out = FALSE

tsIdle ==
    /\ scope_str = <<>>
    /\ timezone = 0
    /\ now = 0
    /\ sc_pc = "idle"
    /\ sc_out = NoScope
    /\ probe_ts = Naive(0)
    /\ probe_out = FALSE

\* one call of parse_time_scope
ParseTimeScope ==
    /\ sc_pc = "parse"
    /\ LET scope == parse_time_scope(scope_str, timezone, now) IN
         IF scope.raised
         THEN sc_pc' = "error" /\ sc_out' = sc_out
         ELSE sc_pc' = "parsed" /\ sc_out' = scope
    /\ UNCHANGED <<scope_str, timezone, now, probe_ts, probe_out>>
    /\ UNCHANGED <<vcVars, grVars, cbVars, ovVars, lgVars, cxVars, tbVars>>

\* one call of TimeScope.contains on the scope parse_time_scope returned
Contains(ts) ==
    /\ sc_pc = "parsed"
    /\ probe_ts' = ts
    /\ probe_out' = TimeScope_contains(sc_out, ts)
    /\ sc_pc' = "probed"
    /\ UNCHANGED <<scope_str, timezone, now, sc_out>>
    /\ UNCHANGED <<vcVars, grVars, cbVars, ovVars, lgVars, cxVars, tbVars>>

-----------------------------------------------------------------------------
(* semantic.add_context_to_prompts *)

\* by_session[session_id]: the prompts of the session, in input order
BySession(extracted, session_id) ==
    SelectSeq(extracted, LAMBDA p : p.session_id = session_id)

\* p put into a list sorted by timestamp behind every element that is not
\* later
RECURSIVE InsertByTimestamp(_, _)
InsertByTimestamp(p, sorted) ==
    IF sorted = <<>> THEN <<p>>
    ELSE IF Head(sorted).timestamp <= p.timestamp
    THEN <<Head(sorted)>> \o InsertByTimestamp(p, Tail(sorted))
    ELSE <<p>> \o sorted

\* session_prompts.sort(key=lambda p: p.timestamp): stable
RECURSIVE SortByTimestamp(_, _)
SortByTimestamp(extracted, sorted) ==
    IF extracted = <<>> THEN sorted
    ELSE SortByTimestamp(Tail(extracted), InsertByTimestamp(Head(extracted), sorted))

\* next(i for i, p in enumerate(session_prompts) if p.timestamp ==
\* prompt.timestamp), counted from 1
IndexOf(session_prompts, prompt) ==
    SetMin({i \in 1..Len(session_prompts) :
               session_prompts[i].timestamp = prompt.timestamp})

\* [p.prompt_text for p in session_prompts[lo:hi]], positions counted from 1
\* and both ends included
TextsOf(session_prompts, lo, hi) ==
    [k \in 1..Max(0, hi - lo + 1) |-> session_prompts[lo + k - 1].prompt_text]

\* the tuple (prompt, context_before, context_after) of one prompt
WithContext(prompt, session_prompts, w) ==
    LET idx == IndexOf(session_prompts, prompt) IN
    [prompt |-> prompt,
     context_before |-> TextsOf(session_prompts, Max(1, idx - w), idx - 1),
     context_after |-> TextsOf(session_prompts, idx + 1,
                               Min(Len(session_prompts), idx + w))]

\* add_context_to_prompts(prompts, context_window)
add_context_to_prompts(extracted, w) ==
    [k \in 1..Len(extracted) |->
        WithContext(extracted[k],
                    SortByTimestamp(BySession(extracted, extracted[k].session_id), <<>>),
                    w)]

\* ExtractedPrompt values; the text of a prompt is its place in the input
ContextInputs ==
    {[k \in 1..Len(f) |->
         [prompt_text |-> k, timestamp |-> f[k][1], session_id |-> f[k][2]]] :
     f \in SeqsUpTo(Instants \X SessionIds, MaxContextPrompts)}

cxInit ==
    /\ cx_prompts \in ContextInputs
    /\ context_window \in 0..MaxWindow
    /\ cx_pc = "called"
    /\ cx_out = <<>>

cxIdle ==
    /\ cx_prompts = <<>>
    /\ context_window = 0
    /\ cx_pc = "idle"
    /\ cx_out = <<>>

\* one call of add_context_to_prompts
AddContext ==
    /\ cx_pc = "called"
    /\ cx_out' = add_context_to_prompts(cx_prompts, context_window)
    /\ cx_pc' = "returned"
    /\ UNCHANGED <<cx_prompts, context_window>>
    /\ UNCHANGED <<vcVars, grVars, cbVars, ovVars, lgVars, tsVars, tbVars>>

-----------------------------------------------------------------------------
(* classifier._truncate_with_budget *)
(* A text is given by its number of characters.  A rendered context string *)
(* is given by its parts: for each message kept, its place in the list,    *)
(* the characters kept of it and whether it was cut.                       *)

\* MAX_PROMPT_CHARS, the default of total_budget
MAX_PROMPT_CHARS == 3000

\* int(total_budget * 0.70)
PromptBudget(total_budget) == (total_budget * 70) \div 100

\* int(total_budget * 0.15)
ContextBudgetEach(total_budget) == (total_budget * 15) \div 100

\* prompt_text[:prompt_budget] + "..." when the text is longer than the budget
TruncatePrompt(prompt_text, prompt_budget) ==
    IF prompt_text > prompt_budget THEN prompt_budget + 3 ELSE prompt_text

\* the loop of format_context over messages[:2], from message i on
RECURSIVE FormatLoop(_, _, _, _)
FormatLoop(messages, i, remaining, result) ==
    IF i > Min(2, Len(messages)) THEN result
    ELSE LET max_len == remaining - 10 IN
         IF max_len <= 0 THEN result
         ELSE IF messages[i] > max_len
         THEN FormatLoop(messages, i + 1, 0,
                         Append(result, [msg |-> i, chars |-> max_len, cut |-> TRUE]))
         ELSE FormatLoop(messages, i + 1, remaining - (messages[i] + 4),
                         Append(result, [msg |-> i, chars |-> messages[i], cut |-> FALSE]))

\* format_context(messages, budget): the parts joined, or "(none)"
format_context(messages, budget) ==
    IF messages = <<>> THEN [none |-> TRUE, parts |-> <<>>]
    ELSE LET result == FormatLoop(messages, 1, budget, <<>>) IN
         [none |-> result = <<>>, parts |-> result]

\* the number of characters of part k: the text kept, two quotes, and "..."
\* when it was cut
RECURSIVE PartsLen(_, _)
PartsLen(parts, k) ==
    IF k > Len(parts) THEN 0
    ELSE parts[k].chars + 2 + (IF parts[k].cut THEN 3 ELSE 0) + PartsLen(parts, k + 1)

\* len of a rendered context string: "(none)", or the parts joined by ", "
RenderedLen(ctx) ==
    IF ctx.none THEN 6
    ELSE PartsLen(ctx.parts, 1) + 2 * (Len(ctx.parts) - 1)

\* _truncate_with_budget(prompt_text, ctx_before, ctx_after, total_budget)
truncate_with_budget(prompt_text, ctx_before, ctx_after, total_budget) ==
    [prompt_text |-> TruncatePrompt(prompt_text, PromptBudget(total_budget)),
     ctx_before_str |-> format_context(ctx_before, ContextBudgetEach(total_budget)),
     ctx_after_str |-> format_context(ctx_after, ContextBudgetEach(total_budget))]

\* lengths of prompt texts: empty, and around the prompt budget
PromptLengths ==
    {0} \cup {PromptBudget(MAX_PROMPT_CHARS) + d : d \in -MaxMargin..MaxMargin}

\* lengths of context messages: short ones, those around the most a first
\* message may have (the budget less 10), and those around the length of a
\* first message that leaves nothing for a second one (4 less)
MessageLengths ==
    (0..MaxMargin)
    \cup {ContextBudgetEach(MAX_PROMPT_CHARS) - 10 + d : d \in -MaxMargin..MaxMargin}
    \cup {ContextBudgetEach(MAX_PROMPT_CHARS) - 14 + d : d \in -MaxMargin..MaxMargin}

\* the context lists of one direction: up to two messages of any of the
\* lengths, followed by short ones up to MaxMessages
ContextLists ==
    {m \in SeqsUpTo(MessageLengths, MaxMessages) :
        \A k \in 3..Len(m) : m[k] <= MaxMargin}

tbInit ==
    /\ tb_prompt \in PromptLengths
    /\ tb_before \in ContextLists
    /\ tb_after \in {m \in ContextLists : Len(m) <= 1}
    /\ tb_pc = "called"
    /\ tb_out = [prompt_text |-> 0,
                 ctx_before_str |-> [none |-> TRUE, parts |-> <<>>],
                 ctx_after_str |-> [none |-> TRUE, parts |-> <<>>]]

tbIdle ==
    /\ tb_prompt = 0
    /\ tb_before = <<>>
    /\ tb_after = <<>>
    /\ tb_pc = "idle"
    /\ tb_out = [prompt_text |-> 0,
                 ctx_before_str |-> [none |-> TRUE, parts |-> <<>>],
                 ctx_after_str |-> [none |-> TRUE, parts |-> <<>>]]

\* one call of _truncate_with_budget with the default budget
TruncateWithBudget ==
    /\ tb_pc = "called"
    /\ tb_out' = truncate_with_budget(tb_prompt, tb_before, tb_after, MAX_PROMPT_CHARS)
    /\ tb_pc' = "returned"
    /\ UNCHANGED <<tb_prompt, tb_before, tb_after>>
    /\ UNCHANGED <<vcVars, grVars, cbVars, ovVars, lgVars, tsVars, cxVars>>

-----------------------------------------------------------------------------
(* Specifications *)

cbIdle ==
    /\ prompts = <<>>
    /\ max_concurrency = 0
    /\ prepared = "None"
    /\ semaphore = 0
    /\ completed_count = 0
    /\ callback_log = <<>>
    /\ finish_order = <<>>
    /\ task_pc = <<>>
    /\ task_results = <<>>
    /\ main_pc = "idle"
    /\ all_results = <<>>
    /\ lock = 0
    /\ setup_count = 0
    /\ send_count = <<>>

ovIdle ==
    /\ ov_periods = <<>>
    /\ ov_pc = "idle"
    /\ ov_out = [overlap_count |-> 0, max_parallel_sessions |-> 0]
    /\ ov_active = {}

lgIdle ==
    /\ store = <<>>
    /\ time_scope = [start_utc |-> 0, end_utc |-> 0]
    /\ include_sub_sessions = FALSE
    /\ lg_pc = "idle"
    /\ ca_out = [raised |-> FALSE, periods |-> <<>>, total_prompts_sent |-> 0,
                 infos |-> <<>>]
    /\ ex_session = 0
    /\ ex_out = [raised |-> FALSE, prompts |-> <<>>]

InitValidate == vcInit /\ grIdle /\ cbIdle /\ ovIdle /\ lgIdle /\ tsIdle /\ cxIdle /\ tbIdle
NextValidate == Validate
SpecValidate == InitValidate /\ [][NextValidate]_vars

InitGroup == vcIdle /\ grInit /\ cbIdle /\ ovIdle /\ lgIdle /\ tsIdle /\ cxIdle /\ tbIdle
NextGroup == ClassifyGroup
SpecGroup == InitGroup /\ [][NextGroup]_vars

Init == vcIdle /\ grIdle /\ cbInit /\ ovIdle /\ lgIdle /\ tsIdle /\ cxIdle /\ tbIdle
Spec == Init /\ [][Next]_vars

\* the steps a task takes on its own once the event loop runs it: entering
\* the semaphore and the lock, the end of the awaited setup, the observer
TaskStep(b) ==
    /\ b \in Tasks
    /\ \/ Acquire(b)
       \/ SetupDone(b)
       \/ SetupFails(b)
       \/ EnterLock(b)
       \/ Notify(b)

\* the task of group b is not waiting for session.execute
CallReturned(b) == b \in Tasks => task_pc[b] # "executing"

\* classify_batch under the scheduling of asyncio: the event loop runs
\* classify_batch and every task that can go on, and no collaborator call
\* stays unanswered for ever
SpecLive ==
    /\ Spec
    /\ WF_vars(Call)
    /\ WF_vars(Return)
    /\ \A b \in 1..NumBatches(MaxPrompts) : WF_vars(TaskStep(b))
    /\ \A b \in 1..NumBatches(MaxPrompts) : []<>CallReturned(b)

InitOverlap == vcIdle /\ grIdle /\ cbIdle /\ ovInit /\ lgIdle /\ tsIdle /\ cxIdle /\ tbIdle
NextOverlap == CalculateOverlap
SpecOverlap == InitOverlap /\ [][NextOverlap]_vars

InitLog == vcIdle /\ grIdle /\ cbIdle /\ ovIdle /\ lgInit /\ tsIdle /\ cxIdle /\ tbIdle
NextLog ==
    \/ CollectAutonomyPeriods
    \/ \E s \in 1..Len(store) : ExtractPrompts(s)
SpecLog == InitLog /\ [][NextLog]_vars

InitScope == vcIdle /\ grIdle /\ cbIdle /\ ovIdle /\ lgIdle /\ tsInit /\ cxIdle /\ tbIdle
NextScope ==
    \/ ParseTimeScope
    \/ \E ts \in Probes(sc_out) : Contains(ts)
SpecScope == InitScope /\ [][NextScope]_vars

InitContext ==
    vcIdle /\ grIdle /\ cbIdle /\ ovIdle /\ lgIdle /\ tsIdle /\ cxInit /\ tbIdle
NextContext == AddContext
SpecContext == InitContext /\ [][NextContext]_vars

InitBudget ==
    vcIdle /\ grIdle /\ cbIdle /\ ovIdle /\ lgIdle /\ tsIdle /\ cxIdle /\ tbInit
NextBudget == TruncateWithBudget
SpecBudget == InitBudget /\ [][NextBudget]_vars

-----------------------------------------------------------------------------
(* Claims about _validate_categories and _classify_batch_group *)

\* how many times x occurs in seq
Count(x, seq) == Cardinality({i \in 1..Len(seq) : seq[i] = x})

\* no cut of the text is a JSON array, and no object in it holds one
NoArrayIn(response) ==
    /\ \A i \in 1..Len(response) : ~HasBrackets(response[i])
    /\ \A i \in 1..Len(response) : \A j \in i..Len(response) :
          LET v == json_loads(SubSeq(response, i, j)) IN ~(v.ok /\ v.val.t = "list")

(* C5: when the response for a group of n members is text from which no     *)
(* array can be parsed, the call returns n results, each with categories    *)
(* ["other"] and the wildcard label "parse_error".                          *)
C5_UnparseableGivesParseError ==
    (gr_pc \in {"returned", "raised"} /\ NoArrayIn(gr_response)) =>
        /\ gr_pc = "returned"
        /\ Len(gr_out) = Len(gr_batch)
        /\ \A i \in 1..Len(gr_out) :
              /\ gr_out[i].categories = <<CATCH_ALL>>
              /\ gr_out[i].wildcard_category = Plain("parse_error")

\* a group of 5 answered with prose only
C5_Witness ==
    /\ gr_pc = "returned"
    /\ Len(gr_batch) = 5
    /\ gr_response = <<Junk, Junk>>
    /\ \A i \in 1..5 : gr_out[i].wildcard_category = Plain("parse_error")

(* C6: _validate_categories returns between 1 and 3 categories, and a       *)
(* wildcard label other than None only when "other" is among them.          *)
C6_ValidateBounds ==
    vc_pc = "output" =>
        /\ ~vc_out.raised
        /\ Len(vc_out.categories) >= 1
        /\ Len(vc_out.categories) <= 3
        /\ (vc_out.wildcard # None => InSeq(CATCH_ALL, vc_out.categories))

\* more than three labels went in, three categories and a wildcard came out
C6_Witness ==
    /\ vc_pc = "output"
    /\ Len(vc_categories) > 3
    /\ Len(vc_out.categories) = 3
    /\ vc_out.wildcard # None

(* C7: the categories of a classified prompt hold "other" at most once,     *)
(* whatever the order of in-taxonomy labels, the literal "other" and        *)
(* out-of-taxonomy labels in the collaborator's list.                       *)
C7_OtherAtMostOnce ==
    vc_pc = "output" => Count(CATCH_ALL, vc_out.categories) <= 1

-----------------------------------------------------------------------------
(* Claims about the result matching of _classify_batch_group *)

\* parsed_results of the call
Parsed == parse_batch_response(gr_response, Len(gr_batch))

\* the positions of the parsed entries whose index field is i
Indexed(i) ==
    {k \in 1..Len(Parsed) : Parsed[k].t = "obj" /\ Parsed[k].index = i}

\* the entry the claim gives member i: the first one whose index is i, else
\* the one at position i, else none (0)
ClaimedEntry(i) ==
    IF Indexed(i) # {} THEN SetMin(Indexed(i))
    ELSE IF i <= Len(Parsed) THEN i
    ELSE 0

(* C23: in a call of _classify_batch_group that returns, member i of the    *)
(* group is built from the parsed entry whose index field is i; if there is *)
(* none, from the entry at position i of the parsed array; if there is none *)
(* either, it gets the category "other" and the marker "missing_result",    *)
(* which is not the marker "parse_error" of a response that did not parse.  *)
C23_IndexThenPositionThenMissing ==
    gr_pc = "returned" =>
        \A i \in 1..Len(gr_batch) :
            /\ gr_out[i].entry = ClaimedEntry(i)
            /\ IF ClaimedEntry(i) = 0
               THEN /\ gr_out[i].categories = <<Plain("other")>>
                    /\ gr_out[i].wildcard_category = Plain("missing_result")
                    /\ gr_out[i].wildcard_category # Plain("parse_error")
               ELSE LET v == ValidateEntry(Parsed[ClaimedEntry(i)]) IN
                    /\ gr_out[i].categories = v.categories
                    /\ gr_out[i].wildcard_category = v.wildcard

\* one member served by index from another position, one by its own position
\* for want of an index, one left without an entry
C23_Witness ==
    /\ gr_pc = "returned"
    /\ \E i, j, k \in 1..Len(gr_batch) :
          /\ Indexed(i) # {} /\ gr_out[i].entry # i
          /\ Indexed(j) = {} /\ gr_out[j].entry = j
          /\ gr_out[k].entry = 0
          /\ gr_out[k].wildcard_category = Plain("missing_result")

(* C30: in a call of _classify_batch_group that returns, no two members of  *)
(* the group are built from the same entry of the parsed array, whatever    *)
(* index fields the response carries.                                       *)
C30_EntryUsedAtMostOnce ==
    gr_pc = "returned" =>
        \A i, j \in 1..Len(gr_batch) :
            (i # j /\ gr_out[i].entry # 0) => gr_out[i].entry # gr_out[j].entry

\* the responses in which every entry names its member: the indexes are
\* 1, 2, ... in the order of the array
IndexedInOrder == \A k \in 1..Len(Parsed) : Parsed[k].t = "obj" /\ Parsed[k].index = k

\* C30 for the responses whose entries carry their own position as index
C30_HoldsForIndexedInOrder == IndexedInOrder => C30_EntryUsedAtMostOnce

-----------------------------------------------------------------------------
(* Claims about classify_batch *)

\* the groups inside _classify_batch_group: started and not yet finished
InFlight == {b \in Tasks : task_pc[b] \in {"loading", "executing"}}

(* C1: whatever the number of prompts, the ceiling and the order in which   *)
(* the groups complete, the list classify_batch returns has one result per  *)
(* input prompt, and result k carries the text, timestamp and session id of *)
(* input k, also when a group's response could not be parsed.               *)
C1_OutputMatchesInput ==
    main_pc = "returned" =>
        /\ Len(all_results) = Len(prompts)
        /\ \A k \in 1..Len(all_results) :
              /\ all_results[k].prompt_text = prompts[k].prompt_text
              /\ all_results[k].timestamp = prompts[k].timestamp
              /\ all_results[k].session_id = prompts[k].session_id

\* three groups returned, the last one first, one of them on defaults
C1_Witness ==
    /\ main_pc = "returned"
    /\ Len(prompts) = 2 * SEMANTIC_BATCH_SIZE + 1
    /\ finish_order[1] = 2
    /\ all_results[1].wildcard_category = Plain("parse_error")
    /\ all_results[Len(prompts)].categories = <<Plain("debugging")>>

(* C2: at no moment of a run are more than config.max_concurrency groups    *)
(* inside _classify_batch_group.                                            *)
C2_InFlightAtMostCeiling ==
    Cardinality(InFlight) <= max_concurrency

\* the ceiling is reached while another group waits for a permit
C2_Witness ==
    /\ main_pc = "gathering"
    /\ max_concurrency = 2
    /\ Cardinality(InFlight) = 2
    /\ \E b \in Tasks : task_pc[b] = "created"

(* C3: no text the collaborator returns for a group makes the run abort:    *)
(* no task ends by an exception raised while its response is handled, and   *)
(* an error of classify_batch comes from a failed setup only.               *)
C3_ResponseNeverAborts ==
    /\ \A b \in Tasks : task_pc[b] # "failed_response"
    /\ (main_pc = "error" => \E b \in Tasks : task_pc[b] = "failed_setup")

(* C4: once the setup failed for a group, classify_batch has ended with an  *)
(* error and returns no list of results, neither complete nor partial.      *)
C4_SetupFailureIsFatal ==
    (\E b \in Tasks : task_pc[b] = "failed_setup") =>
        /\ main_pc = "error"
        /\ all_results = <<>>

\* the setup failed for one group after another group had finished
C4_Witness ==
    /\ main_pc = "error"
    /\ \E b \in Tasks : task_pc[b] = "failed_setup"
    /\ \E b \in Tasks : task_pc[b] = "done"
    /\ \A b \in Tasks : task_pc[b] # "failed_response"

\* the groups inside "async with lock"
InLock == {b \in Tasks : task_pc[b] = "locked"}

\* the groups whose task returned
Completed == {b \in Tasks : task_pc[b] = "done"}

(* C21: the progress observer is called once per completed group, never by  *)
(* two completions at once: at most one group is inside "async with lock",  *)
(* where the counter is advanced and the observer called, and it holds the  *)
(* lock.  The count handed over grows strictly from call to call, never     *)
(* exceeds the total, and is the total on the last call of a run that       *)
(* returns.                                                                 *)
C21_ProgressUnderMutualExclusion ==
    /\ Cardinality(InLock) <= 1
    /\ \A b \in InLock : lock = b
    /\ Len(callback_log) = Cardinality(Completed)
    /\ \A k \in 1..Len(callback_log) :
          /\ callback_log[k][2] = Len(prompts)
          /\ callback_log[k][1] <= Len(prompts)
          /\ k > 1 => callback_log[k - 1][1] < callback_log[k][1]
    /\ (main_pc = "returned" /\ prompts # <<>>) =>
          /\ Len(callback_log) = NumBatches(Len(prompts))
          /\ callback_log[Len(callback_log)][1] = Len(prompts)

\* the observer has been called for one group, a second group is inside the
\* lock and a third waits for it
C21_Witness ==
    /\ Len(callback_log) = 1
    /\ \E b, c \in Tasks : task_pc[b] = "locked" /\ task_pc[c] = "locking"

(* C22: within one run the setup of the collaborator (load, compose,        *)
(* prepare) is begun at most once, also when several groups reach           *)
(* _get_prepared_bundle before the first setup has finished.                *)
C22_SetupAtMostOnce ==
    setup_count <= 1

(* C24: the N inputs of classify_batch are cut into ceil(N / 20) groups,    *)
(* one task each: no group is empty, every group but the last holds 20      *)
(* inputs, the groups put end to end in index order are the input, no group *)
(* is handed to the collaborator twice, and in a run that returns every     *)
(* group was handed to it once.                                             *)
C24_ContiguousGroupsSentOnce ==
    (main_pc # "called" /\ prompts # <<>>) =>
        LET batches == Batches(prompts)
            total == Len(prompts)
        IN /\ Tasks = 1..Len(batches)
           /\ (Len(batches) - 1) * SEMANTIC_BATCH_SIZE < total
           /\ total <= Len(batches) * SEMANTIC_BATCH_SIZE
           /\ \A b \in 1..Len(batches) :
                 /\ batches[b] # <<>>
                 /\ b < Len(batches) => Len(batches[b]) = SEMANTIC_BATCH_SIZE
                 /\ send_count[b] <= 1
                 /\ main_pc = "returned" => send_count[b] = 1
           /\ Flatten(batches) = prompts

\* a run of two full groups and a last group of one has returned
C24_Witness ==
    /\ main_pc = "returned"
    /\ Len(prompts) = 2 * SEMANTIC_BATCH_SIZE + 1
    /\ Len(Batches(prompts)[3]) = 1
    /\ \A b \in Tasks : send_count[b] = 1

\* classify_batch has returned its list, every group was handed to the
\* collaborator and every permit is back in the semaphore
ReturnedCleanly ==
    /\ main_pc = "returned"
    /\ prompts # <<>> =>
          /\ semaphore = max_concurrency
          /\ lock = 0
          /\ \A b \in Tasks : send_count[b] = 1 /\ task_pc[b] = "done"

\* the setup failed for some group
SetupFailed == \E b \in Tasks : task_pc[b] = "failed_setup"

(* C27: in a run whose setup does not fail and whose collaborator calls all *)
(* come back, classify_batch eventually returns, for every number of groups *)
(* and every ceiling: every group has been handed to the collaborator, and  *)
(* every permit has been given back.                                        *)
C27_EventuallyReturns ==
    <>(SetupFailed \/ ReturnedCleanly)

\* an exception left a task while its response was handled
ResponseFailed == \E b \in Tasks : task_pc[b] = "failed_response"

\* C27 for the runs in which no response makes _classify_batch_group raise
C27_HoldsForHandledResponses ==
    <>(SetupFailed \/ ResponseFailed \/ ReturnedCleanly)

-----------------------------------------------------------------------------
(* Claims about calculate_overlap_metrics *)

\* every period of the list lasts: its end is later than its start
AllLasting(periods) == \A i \in 1..Len(periods) : periods[i].end > periods[i].start

\* every ordering of the list seq
Orderings(seq) ==
    {[i \in 1..Len(seq) |-> seq[f[i]]] : f \in Permutations(1..Len(seq))}

(* C8: two orderings of one multiset of periods give the same overlap_count *)
(* and the same max_parallel_sessions; stated for periods that last, where  *)
(* no period starts and ends in the same instant.                           *)
C8_PermutationInvariant ==
    (ov_pc = "returned" /\ AllLasting(ov_periods)) =>
        \A q \in Orderings(ov_periods) :
            /\ calculate_overlap_metrics(q).overlap_count = ov_out.overlap_count
            /\ calculate_overlap_metrics(q).max_parallel_sessions
                   = ov_out.max_parallel_sessions

\* period q of another session is running at the start of period p: surely
\* (it started before and ends after), and at most (ties counted as running)
SurelyRunningAt(q, p) ==
    q.session_id # p.session_id /\ q.start < p.start /\ p.start < q.end
PossiblyRunningAt(q, p) ==
    q.session_id # p.session_id /\ q.start <= p.start /\ p.start <= q.end

\* the period starts that surely, and that possibly, fall into a running
\* period of another session
StartsSurelyOverlapping(periods) ==
    Cardinality({i \in 1..Len(periods) :
        \E j \in 1..Len(periods) : SurelyRunningAt(periods[j], periods[i])})
StartsPossiblyOverlapping(periods) ==
    Cardinality({i \in 1..Len(periods) :
        \E j \in 1..Len(periods) : PossiblyRunningAt(periods[j], periods[i])})

(* C9: overlap_count is the number of period starts that occur while        *)
(* another session has a period that has started and not yet ended (a start *)
(* at the very instant the other period starts or ends may count or not);   *)
(* stated for periods that last.                                            *)
C9_OverlapCountIsStartsDuringOthers ==
    (ov_pc = "returned" /\ AllLasting(ov_periods)) =>
        /\ StartsSurelyOverlapping(ov_periods) <= ov_out.overlap_count
        /\ ov_out.overlap_count <= StartsPossiblyOverlapping(ov_periods)

\* the sessions with a period active at instant t, the end instant excluded
\* or included
ActiveAt(periods, t, closed) ==
    {periods[i].session_id : i \in
        {i \in 1..Len(periods) :
            /\ periods[i].start <= t
            /\ (t < periods[i].end \/ (closed /\ t = periods[i].end))}}

\* the largest number of sessions active at one instant
MostActive(periods, closed) ==
    LET counts == {Cardinality(ActiveAt(periods, t, closed)) : t \in 0..MaxTime + 1}
    IN SetMax(counts)

(* C10: max_parallel_sessions is the maximum over all instants of the       *)
(* number of distinct sessions with a period active at that instant (a      *)
(* period may count as active at its end instant or not); stated for        *)
(* periods that last.                                                       *)
C10_MaxParallelIsMostActive ==
    (ov_pc = "returned" /\ AllLasting(ov_periods)) =>
        /\ MostActive(ov_periods, FALSE) <= ov_out.max_parallel_sessions
        /\ ov_out.max_parallel_sessions <= MostActive(ov_periods, TRUE)

\* the sorted event list the sweep of the call runs over
SortedEvents(periods) == SortEvents(BuildEvents(periods), <<>>)

\* the sweep's state after its first k events
SweepAfter(periods, k) ==
    Sweep(SubSeq(SortedEvents(periods), 1, k), {}, 0, 0)

\* the k-th event of the sweep incremented overlap_count
Incremented(periods, k) ==
    SweepAfter(periods, k).overlap_count > SweepAfter(periods, k - 1).overlap_count

\* all periods of the list belong to one session
OneSession(periods) ==
    \A i, j \in 1..Len(periods) : periods[i].session_id = periods[j].session_id

(* C11: a start event of session S increments overlap_count only if a       *)
(* session other than S is in the active set at that moment, and a list     *)
(* whose periods all belong to one session gives overlap_count = 0.         *)
C11_OnlyOtherSessionsCount ==
    ov_pc = "returned" =>
        /\ \A k \in 1..Len(SortedEvents(ov_periods)) :
              Incremented(ov_periods, k) =>
                  /\ SortedEvents(ov_periods)[k].event_type = "start"
                  /\ SweepAfter(ov_periods, k - 1).active_sessions
                         \ {SortedEvents(ov_periods)[k].session_id} # {}
        /\ OneSession(ov_periods) => ov_out.overlap_count = 0

\* one session with a period that starts inside another of its periods and a
\* period that starts where another ends
C11_Witness ==
    /\ ov_pc = "returned"
    /\ OneSession(ov_periods)
    /\ \E i, j \in 1..Len(ov_periods) :
          /\ i # j
          /\ ov_periods[j].start < ov_periods[i].start
          /\ ov_periods[i].start < ov_periods[j].end
    /\ \E i, j \in 1..Len(ov_periods) :
          i # j /\ ov_periods[i].start = ov_periods[j].end
    /\ ov_out.overlap_count = 0

\* session sid has a period running at instant t: started, not yet ended
RunningAt(periods, sid, t) ==
    \E i \in 1..Len(periods) :
        /\ periods[i].session_id = sid
        /\ periods[i].start <= t
        /\ t < periods[i].end

\* a period of session sid ends at instant t
EndsAt(periods, sid, t) ==
    \E i \in 1..Len(periods) : periods[i].session_id = sid /\ periods[i].end = t

(* C12: when a period of session A ends at the instant a period of another  *)
(* session B starts, the end event is processed before the start event, and *)
(* (A having no period running at that instant) A is not in the active set  *)
(* that B's start is tested against and joins: the start is not counted as  *)
(* an overlap with A and the two are not counted as parallel.               *)
C12_EndBeforeStartAtSameInstant ==
    ov_pc = "returned" =>
        LET ev == SortedEvents(ov_periods) IN
        /\ \A i, j \in 1..Len(ev) :
              (/\ ev[i].ts = ev[j].ts
               /\ ev[i].event_type = "end"
               /\ ev[j].event_type = "start") => i < j
        /\ \A k \in 1..Len(ev) : \A sid \in SessionIds :
              (/\ ev[k].event_type = "start"
               /\ sid # ev[k].session_id
               /\ EndsAt(ov_periods, sid, ev[k].ts)
               /\ ~RunningAt(ov_periods, sid, ev[k].ts))
              => sid \notin SweepAfter(ov_periods, k - 1).active_sessions

\* C12 for periods that last (end later than start)
C12_HoldsForLastingPeriods ==
    AllLasting(ov_periods) => C12_EndBeforeStartAtSameInstant

\* a period of A ends where a period of B starts, both lasting, and the call
\* reports no overlap and one session at a time
C12_LastingWitness ==
    /\ ov_pc = "returned"
    /\ AllLasting(ov_periods)
    /\ Len(ov_periods) = 2
    /\ ov_periods[1].session_id # ov_periods[2].session_id
    /\ ov_periods[1].end = ov_periods[2].start
    /\ ov_out = [overlap_count |-> 0, max_parallel_sessions |-> 1]

\* session sid has a period that has started and not ended before instant t
OpenAt(periods, sid, t) ==
    \E i \in 1..Len(periods) :
        /\ periods[i].session_id = sid
        /\ periods[i].start <= t
        /\ t <= periods[i].end

(* C28: on periods with end >= start the active set is empty once the sweep *)
(* has processed every event, and after each event a session is in the set  *)
(* only if one of its periods has started and has not ended before the      *)
(* instant of that event.                                                   *)
C28_ActiveSetEmptiesOut ==
    ov_pc = "returned" =>
        LET ev == SortedEvents(ov_periods) IN
        /\ ov_active = {}
        /\ \A k \in 1..Len(ev) :
              \A sid \in SweepAfter(ov_periods, k).active_sessions :
                  OpenAt(ov_periods, sid, ev[k].ts)

\* C28 for periods that last (end later than start)
C28_HoldsForLastingPeriods ==
    AllLasting(ov_periods) => C28_ActiveSetEmptiesOut

-----------------------------------------------------------------------------
(* Claims about the reading of session logs *)

\* the positions of the lines of a log that the read takes as event ev
PositionsOf(lines, ev) == {i \in 1..Len(lines) : LineOutcome(lines[i]) = ev}

\* the n-th smallest element of a set of numbers
Nth(S, n) == CHOOSE x \in S : Cardinality({y \in S : y < x}) = n - 1

\* the instant of the n-th record of event ev, in file order
NthInstant(lines, ev, n) == lines[Nth(PositionsOf(lines, ev), n)].ts.instant

\* min(#submits, #completes) of a log
PairCount(lines) ==
    Min(Cardinality(PositionsOf(lines, "prompt:submit")),
        Cardinality(PositionsOf(lines, "prompt:complete")))

\* the pairs whose submit is inside the scope
InScopePairs(lines, scope) ==
    {n \in 1..PairCount(lines) : contains(scope, NthInstant(lines, "prompt:submit", n))}

\* periods are the periods of the in-scope pairs of the session, pair n made
\* of the n-th submit and the n-th complete of the file
PositionalPeriods(session, scope, periods) ==
    /\ Len(periods) = Cardinality(InScopePairs(session.lines, scope))
    /\ \A k \in 1..Len(periods) :
          LET n == Nth(InScopePairs(session.lines, scope), k) IN
          periods[k] = [start |-> NthInstant(session.lines, "prompt:submit", n),
                        end |-> NthInstant(session.lines, "prompt:complete", n),
                        session_id |-> session.session_id]

\* the session of the store with the given id
StoreSession(session_id) ==
    store[CHOOSE i \in 1..Len(store) : store[i].session_id = session_id]

\* collect_autonomy_periods has returned normally
Collected == lg_pc \in {"extract", "done"} /\ ~ca_out.raised

(* C13: within one session the i-th submit of the file is paired with the   *)
(* i-th complete for i up to min(#submits, #completes), whichever submits   *)
(* are in scope, and pair i gives a period exactly when submit i is inside  *)
(* the TimeScope.                                                           *)
C13_PairingIsPositional ==
    Collected =>
        \A k \in 1..Len(ca_out.infos) :
            PositionalPeriods(StoreSession(ca_out.infos[k].session_id), time_scope,
                              ca_out.infos[k].autonomy_periods)

\* a session with 3 in-scope submits and 2 completes gave exactly 2 periods
C13_Witness ==
    /\ Collected
    /\ Len(store) = 1
    /\ Len(ca_out.infos) = 1
    /\ LET lines == store[1].lines IN
         /\ Cardinality(PositionsOf(lines, "prompt:submit")) = 3
         /\ \A i \in PositionsOf(lines, "prompt:submit") :
               contains(time_scope, lines[i].ts.instant)
         /\ Cardinality(PositionsOf(lines, "prompt:complete")) = 2
    /\ Len(ca_out.infos[1].autonomy_periods) = 2

\* the submit records of a log whose instant is inside the scope
InScopeSubmits(lines, scope) ==
    {i \in PositionsOf(lines, "prompt:submit") : contains(scope, lines[i].ts.instant)}

(* C14: the total-prompts-sent tally is the number of in-scope submit       *)
(* events, paired or not, and is at least the number of emitted periods,    *)
(* for every session and in the aggregate over the included sessions.       *)
C14_TallyAtLeastPeriods ==
    Collected =>
        /\ \A k \in 1..Len(ca_out.infos) :
              LET info == ca_out.infos[k] IN
              /\ info.total_prompts_in_scope =
                     Cardinality(InScopeSubmits(StoreSession(info.session_id).lines,
                                                time_scope))
              /\ info.total_prompts_in_scope >= Len(info.autonomy_periods)
        /\ ca_out.total_prompts_sent >= Len(ca_out.periods)

\* two sessions were included, both had a submit in scope, a period was
\* emitted and an in-scope submit of the run found no complete
C14_Witness ==
    /\ Collected
    /\ Len(ca_out.infos) = 2
    /\ \A k \in 1..2 : ca_out.infos[k].total_prompts_in_scope > 0
    /\ Len(ca_out.periods) > 0
    /\ ca_out.total_prompts_sent > Len(ca_out.periods)

\* a line the read is to skip: invalid JSON, JSON that is not an object, a
\* record with no timestamp or with a timestamp that does not parse
Malformed(rec) == rec.json # "object" \/ rec.ts.kind # "iso"

\* the log without its malformed lines
WellFormedLines(lines) == SelectSeq(lines, LAMBDA rec : ~Malformed(rec))

\* the store with every log reduced to its well-formed lines
WellFormedStore ==
    [i \in 1..Len(store) |->
        Session(store[i].session_id, WellFormedLines(store[i].lines))]

(* C15: a malformed line (invalid JSON, JSON that is not an object, a       *)
(* record with no timestamp or with a timestamp that is not a parseable     *)
(* string) is skipped without effect and the read continues: neither        *)
(* parse_session_events nor extract_prompts_from_session aborts, and both   *)
(* return what they return for the log without its malformed lines.         *)
C15_MalformedLinesSkipped ==
    /\ lg_pc \in {"extract", "done"} =>
          /\ ~ca_out.raised
          /\ ca_out = collect_autonomy_periods(WellFormedStore, time_scope,
                                               include_sub_sessions)
    /\ lg_pc = "done" =>
          /\ ~ex_out.raised
          /\ ex_out = extract_prompts_from_session(WellFormedStore[ex_session],
                                                   time_scope)

\* the malformed lines the except clause covers: invalid JSON, no timestamp,
\* a string that is no ISO timestamp
Caught(rec) == LineOutcome(rec) # "raise"

\* C15 for the logs whose lines are all of the kinds the except clause covers
C15_HoldsForCaughtLines ==
    (\A i \in 1..Len(store) : \A j \in 1..Len(store[i].lines) :
        Caught(store[i].lines[j]))
    => C15_MalformedLinesSkipped

\* a log with a skipped line before a submit and a complete in scope, which
\* were read and paired
C15_CaughtWitness ==
    /\ Collected
    /\ Len(store) = 1
    /\ Len(store[1].lines) = 3
    /\ Malformed(store[1].lines[1])
    /\ Len(ca_out.periods) = 1

\* the records of the log carry non-decreasing timestamps in file order
NonDecreasing(lines) ==
    LET stamped == WellFormedLines(lines) IN
    \A i \in 1..Len(stamped) - 1 : stamped[i].ts.instant <= stamped[i + 1].ts.instant

(* C29: for session logs whose records carry non-decreasing timestamps in   *)
(* file order, every AutonomyPeriod that parse_session_events emits has     *)
(* end >= start, whatever the order of the submit and complete records (a   *)
(* complete with no submit before it, two submits in a row).                *)
C29_PeriodsEndAfterStart ==
    (Collected /\ \A i \in 1..Len(store) : NonDecreasing(store[i].lines)) =>
        \A k \in 1..Len(ca_out.infos) :
            \A n \in 1..Len(ca_out.infos[k].autonomy_periods) :
                ca_out.infos[k].autonomy_periods[n].end
                    >= ca_out.infos[k].autonomy_periods[n].start

\* every submit of the log has a complete after it and before the next
\* submit, and the log starts with a submit: submit1, complete1, submit2, ...
Alternating(lines) ==
    LET events == SelectSeq(WellFormedLines(lines),
                            LAMBDA rec : rec.event \in {"prompt:submit", "prompt:complete"})
    IN \A i \in 1..Len(events) :
          events[i].event = (IF i % 2 = 1 THEN "prompt:submit" ELSE "prompt:complete")

\* C29 for the logs in which submits and completes alternate
C29_HoldsForAlternatingLogs ==
    (\A i \in 1..Len(store) : Alternating(store[i].lines)) => C29_PeriodsEndAfterStart

-----------------------------------------------------------------------------
(* Claims about time_scope.py *)

\* the instant the probed datetime stands for, a naive one read as UTC
ProbeInstant == IF probe_ts.aware THEN probe_ts.wall - probe_ts.offset ELSE probe_ts.wall

\* the bounds of the returned scope, as instants
StartInstant == sc_out.start_utc.wall - sc_out.start_utc.offset
EndInstant == sc_out.end_utc.wall - sc_out.end_utc.offset

\* the expression is one date, or a range of two
SingleDate == Len(scope_str) = 1 /\ scope_str[1].text = "date"
DateRange == Len(scope_str) = 2

(* C16: TimeScope.contains(ts) is true exactly when start_utc <= ts <=       *)
(* end_utc, both bounds included; for a single-date scope in UTC the last   *)
(* instant of the day (23:59:59.999999) is contained and 00:00:00 of the    *)
(* next day is not.                                                         *)
C16_ContainsIsInclusive ==
    sc_pc = "probed" =>
        /\ probe_out <=> (StartInstant <= ProbeInstant /\ ProbeInstant <= EndInstant)
        /\ (SingleDate /\ timezone = 0) =>
              /\ ProbeInstant = scope_str[1].day * UnitsPerDay + UnitsPerDay - 1
                    => probe_out
              /\ ProbeInstant = (scope_str[1].day + 1) * UnitsPerDay => ~probe_out

\* a single date in UTC, asked about the last instant of its day, in another
\* zone's wall-clock reading
C16_Witness ==
    /\ sc_pc = "probed"
    /\ SingleDate
    /\ timezone = 0
    /\ probe_ts.aware
    /\ probe_ts.offset # 0
    /\ ProbeInstant = scope_str[1].day * UnitsPerDay + UnitsPerDay - 1
    /\ ProbeInstant = EndInstant
    /\ probe_out

(* C17: for a single-date or range scope, an event logged at exact local    *)
(* midnight (00:00:00.000000) of the scope's first day is contained in the  *)
(* TimeScope parse_time_scope built; stated for ranges that do not run      *)
(* backwards.                                                               *)
C17_LocalMidnightContained ==
    (/\ sc_pc = "probed"
     /\ SingleDate \/ (DateRange /\ scope_str[1].day <= scope_str[2].day)
     /\ probe_ts = Aware(scope_str[1].day * UnitsPerDay, timezone))
    => probe_out

(* C18: every TimeScope parse_time_scope returns has start_utc <= end_utc,  *)
(* also for a range whose second date is earlier than its first.            *)
C18_StartNotAfterEnd ==
    sc_pc \in {"parsed", "probed"} => StartInstant <= EndInstant

\* C18 for the expressions other than a range that runs backwards
C18_HoldsForOrderedDates ==
    (DateRange /\ scope_str[1].text = "date" /\ scope_str[2].text = "date"
        => scope_str[1].day <= scope_str[2].day)
    => C18_StartNotAfterEnd

\* the local wall-clock readings of now and of the returned bounds
NowLocal == now + timezone
StartLocal == StartInstant + timezone
EndLocal == EndInstant + timezone

\* now is a Monday before noon, local time
MondayMorning == DayOf(NowLocal) % DaysPerWeek = 0 /\ UnitOf(NowLocal) < Noon

(* C19: the "default" scope is a Monday-to-Sunday week, local time, that    *)
(* has fully ended before the evaluation instant, and the most recent such  *)
(* week (the week after it has not ended), except on a Monday before local  *)
(* noon, when it is the week one further back, ending 8 days earlier.       *)
C19_DefaultIsLastFullWeek ==
    (sc_pc \in {"parsed", "probed"} /\ scope_str = <<DefaultWord>>) =>
        /\ DayOf(StartLocal) % DaysPerWeek = 0
        /\ UnitOf(StartLocal) <= FirstUnit
        /\ DayOf(EndLocal) = DayOf(StartLocal) + 6
        /\ UnitOf(EndLocal) = UnitsPerDay - 1
        /\ EndInstant < now
        /\ IF MondayMorning
           THEN DayOf(EndLocal) = DayOf(NowLocal) - 8
           ELSE EndLocal + DaysPerWeek * UnitsPerDay >= NowLocal

\* "default" evaluated on a Monday morning, in a zone away from UTC
C19_Witness ==
    /\ sc_pc = "parsed"
    /\ scope_str = <<DefaultWord>>
    /\ timezone # 0
    /\ MondayMorning
    /\ DayOf(EndLocal) = DayOf(NowLocal) - 8

-----------------------------------------------------------------------------
(* Claims about add_context_to_prompts *)

\* the time-sorted sequence of the session of the k-th input prompt
SessionSequence(k) ==
    SortByTimestamp(BySession(cx_prompts, cx_prompts[k].session_id), <<>>)

\* the k-th input prompt's own position in that sequence
OwnPosition(k) ==
    CHOOSE i \in 1..Len(SessionSequence(k)) : SessionSequence(k)[i] = cx_prompts[k]

\* the texts of a sequence of prompts
Texts(seq) == [i \in 1..Len(seq) |-> seq[i].prompt_text]

(* C20: for every prompt of the input, context_before is the texts of the   *)
(* up-to-w prompts right before the prompt's own position in its session's  *)
(* time-sorted sequence and context_after the texts of the up-to-w prompts  *)
(* right after it; neither holds the prompt itself nor a prompt of another  *)
(* session, also when two prompts of a session carry the same timestamp.    *)
C20_ContextAroundOwnPosition ==
    cx_pc = "returned" =>
        /\ Len(cx_out) = Len(cx_prompts)
        /\ \A k \in 1..Len(cx_prompts) :
              LET seq == SessionSequence(k)
                  pos == OwnPosition(k)
                  w == context_window
              IN /\ cx_out[k].prompt = cx_prompts[k]
                 /\ cx_out[k].context_before
                        = Texts(SubSeq(seq, Max(1, pos - w), pos - 1))
                 /\ cx_out[k].context_after
                        = Texts(SubSeq(seq, pos + 1, Min(Len(seq), pos + w)))
                 /\ ~InSeq(cx_prompts[k].prompt_text, cx_out[k].context_before)
                 /\ ~InSeq(cx_prompts[k].prompt_text, cx_out[k].context_after)

\* no two prompts of one session carry the same timestamp
DistinctStamps ==
    \A i, j \in 1..Len(cx_prompts) :
        (/\ i # j
         /\ cx_prompts[i].session_id = cx_prompts[j].session_id)
        => cx_prompts[i].timestamp # cx_prompts[j].timestamp

\* C20 for the inputs in which the prompts of a session differ in timestamp
C20_HoldsForDistinctStamps == DistinctStamps => C20_ContextAroundOwnPosition

\* two sessions, distinct timestamps within each, a prompt with a neighbour
\* of its session before it and one with a neighbour after it
C20_DistinctWitness ==
    /\ cx_pc = "returned"
    /\ DistinctStamps
    /\ context_window > 0
    /\ \E k \in 1..Len(cx_prompts) : cx_out[k].context_before # <<>>
    /\ \E k \in 1..Len(cx_prompts) : cx_out[k].context_after # <<>>
    /\ \E i, j \in 1..Len(cx_prompts) : cx_prompts[i].session_id # cx_prompts[j].session_id

-----------------------------------------------------------------------------
(* Claims about _truncate_with_budget *)

\* the places, in the list handed over, of the messages a rendered context
\* string holds
Kept(ctx) == {ctx.parts[k].msg : k \in 1..Len(ctx.parts)}

\* of the messages of a direction, no more than two are kept, and a message
\* is dropped for want of budget only if every earlier one is dropped too
LaterKept(messages, ctx) ==
    /\ Cardinality(Kept(ctx)) <= 2
    /\ Len(ctx.parts) <= 2
    /\ Len(messages) <= 2 =>
          \A i \in Kept(ctx) : \A j \in 1..Len(messages) : j > i => j \in Kept(ctx)

(* C25: in either direction at most two context messages are kept, and when *)
(* the budget of the direction does not hold all of them it is the earlier  *)
(* message that is dropped and the later one that is kept, cut if needed.   *)
C25_EarlierDroppedFirst ==
    tb_pc = "returned" =>
        /\ LaterKept(tb_before, tb_out.ctx_before_str)
        /\ LaterKept(tb_after, tb_out.ctx_after_str)

\* the part of C25 about the number of messages kept
C25_HoldsForTheCap ==
    tb_pc = "returned" =>
        /\ Len(tb_out.ctx_before_str.parts) <= 2
        /\ Len(tb_out.ctx_after_str.parts) <= 2

(* C26: the prompt text returned has at most int(0.70 * budget) characters, *)
(* each rendered context string at most int(0.15 * budget), markers and     *)
(* quotes included, and the three together at most the budget.              *)
C26_WithinBudget ==
    tb_pc = "returned" =>
        /\ tb_out.prompt_text <= PromptBudget(MAX_PROMPT_CHARS)
        /\ RenderedLen(tb_out.ctx_before_str) <= ContextBudgetEach(MAX_PROMPT_CHARS)
        /\ RenderedLen(tb_out.ctx_after_str) <= ContextBudgetEach(MAX_PROMPT_CHARS)
        /\ tb_out.prompt_text + RenderedLen(tb_out.ctx_before_str)
             + RenderedLen(tb_out.ctx_after_str) <= MAX_PROMPT_CHARS

\* the parts of C26 about the context strings and about the three together
C26_HoldsForContextAndTotal ==
    tb_pc = "returned" =>
        /\ RenderedLen(tb_out.ctx_before_str) <= ContextBudgetEach(MAX_PROMPT_CHARS)
        /\ RenderedLen(tb_out.ctx_after_str) <= ContextBudgetEach(MAX_PROMPT_CHARS)
        /\ tb_out.prompt_text + RenderedLen(tb_out.ctx_before_str)
             + RenderedLen(tb_out.ctx_after_str) <= MAX_PROMPT_CHARS

=============================================================================
